---- MODULE Spec2Model ----
(***************************************************************************)
(* Model of the pypixelcolor transport: the AckManager (two asyncio        *)
(* events fed by the BLE notification handler), the chunking generator     *)
(* _chunk_bytes, the coroutine send_plan, and the AsyncClient command      *)
(* method that builds a SendPlan with a command function and sends it.     *)
(*                                                                         *)
(* The coroutine runs on one asyncio event loop: between two awaits its    *)
(* code is atomic with respect to the notification handler.  Each action   *)
(* of the sender therefore runs the code from one suspension point (an     *)
(* awaited link write, an awaited event wait) to the next one.  The        *)
(* variable log records, in program order, every operation the coroutine   *)
(* performs inside such a step.                                            *)
(***************************************************************************)
EXTENDS Integers, Sequences, FiniteSets, TLC

\* ---------------------------------------------------------------- bounds
MaxWindows == 2
MaxLen == 3
MaxChunk == 2

\* ------------------------------------------------------ program constants
DefaultChunkSize == 244
MaxBrightness == 100
window_size == 12288

\* ---------------------------------------------------------------- helpers
Min(a, b) == IF a < b THEN a ELSE b

CeilDiv(a, b) == (a + b - 1) \div b

\* The concatenation of the sequences ss[lo], ..., ss[hi].
RECURSIVE ConcatRange(_, _, _)
ConcatRange(ss, lo, hi) ==
    IF lo > hi THEN <<>>
    ELSE IF lo = hi THEN ss[lo]
    ELSE LET mid == (lo + hi) \div 2
         IN  ConcatRange(ss, lo, mid) \o ConcatRange(ss, mid + 1, hi)

Concat(ss) == ConcatRange(ss, 1, Len(ss))

IsPrefix(s, t) == Len(s) <= Len(t) /\ SubSeq(t, 1, Len(s)) = s

\* ------------------------------------------------------------- data model
AckPolicy(per_window, final) ==
    [ack_per_window |-> per_window, ack_final |-> final]

Window(data, requires_ack) ==
    [data |-> data, requires_ack |-> requires_ack]

SendPlan(id, windows, chunk_size, ack_policy) ==
    [id |-> id, windows |-> windows, chunk_size |-> chunk_size,
     ack_policy |-> ack_policy]

single_window_plan(plan_id, data, requires_ack) ==
    SendPlan(plan_id, <<Window(data, requires_ack)>>, DefaultChunkSize,
             AckPolicy(TRUE, TRUE))

\* The value of AsyncClient's plan local before a plan has been built.
NoPlan == SendPlan("none", <<>>, DefaultChunkSize, AckPolicy(FALSE, FALSE))

\* --------------------------------------------------------------- commands
\* set_brightness(level): "raise" stands for the ValueError.
Raise == [id |-> "raise"]

\* set_brightness without its range check.
set_brightness_unchecked(level) ==
    single_window_plan("set_brightness", <<5, 0, 4, 128, level>>, TRUE)

set_brightness(level) ==
    IF (0 > level) \/ (level > MaxBrightness)
    THEN Raise
    ELSE single_window_plan("set_brightness", <<5, 0, 4, 128, level>>, TRUE)

\* ------------------------------------------------------------ input sets
Levels == {-1, 0, 50, MaxBrightness, MaxBrightness + 1}

\* Window payloads: the bytes 1..n, so that every byte of a buffer is
\* distinguishable from the others; an empty buffer, a single byte and the
\* longest buffer.
DataSet == {[i \in 1..n |-> i] : n \in {0, 1, MaxLen}}

WindowSet == {Window(d, r) : d \in DataSet, r \in BOOLEAN}

WindowSeqs == UNION {[1..n -> WindowSet] : n \in 0..MaxWindows}

PolicySet == {AckPolicy(a, b) : a \in BOOLEAN, b \in BOOLEAN}

\* The plans handed directly to send_plan.
PlanSet == {SendPlan("plan", ws, c, ap) :
               ws \in WindowSeqs, c \in 1..MaxChunk, ap \in PolicySet}

\* Notification frames: byte 0, three filler bytes, the status byte, one
\* trailing byte, cut to every length 0..6.
FrameOf(b0, status, n) == SubSeq(<<b0, 0, 0, 0, status, 0>>, 1, n)

Frames == {FrameOf(b0, st, n) : b0 \in {4, 5}, st \in 0..4, n \in 0..6}

\* The frames the link delivers during a session: the four statuses in a
\* well-formed 5-byte frame, a 6-byte frame, a foreign frame and an empty one.
LinkFrames ==
    {FrameOf(5, st, 5) : st \in 0..3}
        \cup {FrameOf(5, 3, 6), FrameOf(4, 0, 5), <<>>}

\* ------------------------------------------------------------------ state
VARIABLES
    connected,      \* AsyncClient._connected (the AckManager exists iff TRUE)
    window_event,   \* AckManager.window_event is set
    all_event,      \* AckManager.all_event is set
    call,           \* the current method invocation: [cmd, arg]
    plan,           \* the SendPlan being sent
    pc,             \* where the invocation stands
    idx,            \* send_plan: index of the current window (from 0)
    pos,            \* _chunk_bytes: pos of the current window
    link,           \* chunks this invocation has written to the link
    log,            \* operations this invocation has performed, in order
    err             \* the exception the invocation raised, "" if none

vars == <<connected, window_event, all_event, call, plan, pc, idx, pos,
          link, log, err>>

Suspended == {"writing", "wait_window", "wait_final"}
Terminal == {"done", "failed", "cancelled", "rejected"}

\* A log entry: the operation, the window it belongs to, and the chunk (for
\* a write).
Entry(op, win, chunk) == [op |-> op, win |-> win, chunk |-> chunk]

NoCall == [cmd |-> "none", arg |-> 0]

\* -------------------------------------------------------------- AckManager
\* The handler with only its first branch (frames of exactly 5 bytes).
handler_len5_only(data, we, ae) ==
    IF Len(data) = 5 /\ data[1] = 5
    THEN IF data[5] \in {0, 1} THEN <<TRUE, ae>>
         ELSE IF data[5] = 3 THEN <<TRUE, TRUE>>
         ELSE <<we, ae>>
    ELSE <<we, ae>>

\* The handler taking status 2 as a negative acknowledgment that clears
\* the window signal.
handler_nack_clears(data, we, ae) ==
    IF Len(data) >= 5 /\ data[1] = 5
    THEN IF data[5] \in {0, 1} THEN <<TRUE, ae>>
         ELSE IF data[5] = 3 THEN <<TRUE, TRUE>>
         ELSE IF data[5] = 2 THEN <<FALSE, ae>>
         ELSE <<we, ae>>
    ELSE <<we, ae>>

\* AckManager.make_notify_handler.handler: the pair <<window_event,
\* all_event>> after the handler has run on frame data.
handler(data, we, ae) ==
    IF Len(data) = 0 THEN <<we, ae>>
    ELSE IF Len(data) = 5 /\ data[1] = 5
         THEN IF data[5] \in {0, 1} THEN <<TRUE, ae>>
              ELSE IF data[5] = 3 THEN <<TRUE, TRUE>>
              ELSE <<we, ae>>
         ELSE LET b0 == data[1]
                  has_b4 == Len(data) > 4
              IN IF b0 = 5 /\ has_b4
                 THEN IF data[5] \in {0, 1} THEN <<TRUE, ae>>
                      ELSE IF data[5] = 3 THEN <<TRUE, TRUE>>
                      ELSE <<we, ae>>
                 ELSE <<we, ae>>

\* ------------------------------------------------------------ _chunk_bytes
\* end = min(pos + size, total)
chunk_end(p, size, total) == Min(p + size, total)

\* buf[pos:end - 1]
slice_short(buf, p, end) == SubSeq(buf, p + 1, end - 1)

\* buf[pos:end]
slice(buf, p, end) == SubSeq(buf, p + 1, end)

\* --------------------------------------------------------------- send_plan
\* The test reading the wrong policy flag.
needs_window_ack_wrong_flag(p, i) ==
    p.ack_policy.ack_final /\ p.windows[i + 1].requires_ack

\* The test reading the policy and not the window.
needs_window_ack_policy_only(p, i) == p.ack_policy.ack_per_window

\* `if plan.ack_policy.ack_per_window and win.requires_ack`
needs_window_ack(p, i) ==
    p.ack_policy.ack_per_window /\ p.windows[i + 1].requires_ack

\* The part of the coroutine's state one step rewrites.
Frame(st_pc, st_idx, st_pos, we, ae, lk, lg) ==
    [pc |-> st_pc, idx |-> st_idx, pos |-> st_pos, window_event |-> we,
     all_event |-> ae, link |-> lk, log |-> lg]

RECURSIVE for_windows(_, _), for_chunks(_, _)

\* The head of `for chunk in _chunk_bytes(win.data, plan.chunk_size)` for
\* window st.idx, entered with the generator at st.pos; runs to the next
\* await.
for_chunks(p, st) ==
    LET win == p.windows[st.idx + 1]
        total == Len(win.data)
    IN IF st.pos < total
       THEN LET end == chunk_end(st.pos, p.chunk_size, total)
                chunk == slice(win.data, st.pos, end)
            IN [st EXCEPT !.pc = "writing",
                          !.link = Append(@, chunk),
                          !.log = Append(@, Entry("write", st.idx, chunk))]
       ELSE IF needs_window_ack(p, st.idx)
            THEN [st EXCEPT !.pc = "wait_window",
                            !.log = Append(@, Entry("wait_window", st.idx, <<>>))]
            ELSE for_windows(p, [st EXCEPT !.idx = @ + 1])

\* The window loop with reset() called for the first window only.
for_windows_reset_once(p, st) ==
    IF st.idx < Len(p.windows)
    THEN IF st.idx = 0
         THEN for_chunks(p, [st EXCEPT !.window_event = FALSE,
                                       !.all_event = FALSE,
                                       !.pos = 0,
                                       !.log = Append(@, Entry("reset", st.idx, <<>>))])
         ELSE for_chunks(p, [st EXCEPT !.pos = 0])
    ELSE IF p.ack_policy.ack_final
         THEN [st EXCEPT !.pc = "wait_final",
                         !.log = Append(@, Entry("wait_final", st.idx, <<>>))]
         ELSE [st EXCEPT !.pc = "done"]

\* The window loop with a reset() that clears the window signal only.
for_windows_clear_window_only(p, st) ==
    IF st.idx < Len(p.windows)
    THEN for_chunks(p, [st EXCEPT !.window_event = FALSE,
                                  !.pos = 0,
                                  !.log = Append(@, Entry("reset", st.idx, <<>>))])
    ELSE IF p.ack_policy.ack_final
         THEN [st EXCEPT !.pc = "wait_final",
                         !.log = Append(@, Entry("wait_final", st.idx, <<>>))]
         ELSE [st EXCEPT !.pc = "done"]

\* The head of `for idx, win in enumerate(plan.windows)` for window st.idx,
\* and the code after the loop; runs to the next await.
for_windows(p, st) ==
    IF st.idx < Len(p.windows)
    THEN for_chunks(p, [st EXCEPT !.window_event = FALSE,
                                  !.all_event = FALSE,
                                  !.pos = 0,
                                  !.log = Append(@, Entry("reset", st.idx, <<>>))])
    ELSE IF p.ack_policy.ack_final
         THEN [st EXCEPT !.pc = "wait_final",
                         !.log = Append(@, Entry("wait_final", st.idx, <<>>))]
         ELSE [st EXCEPT !.pc = "done"]

Here == Frame(pc, idx, pos, window_event, all_event, link, log)

Become(st) ==
    /\ pc' = st.pc
    /\ idx' = st.idx
    /\ pos' = st.pos
    /\ window_event' = st.window_event
    /\ all_event' = st.all_event
    /\ link' = st.link
    /\ log' = st.log

\* ----------------------------------------------------------------- actions
Init ==
    /\ connected = FALSE
    /\ window_event = FALSE
    /\ all_event = FALSE
    /\ call = NoCall
    /\ plan = NoPlan
    /\ pc = "idle"
    /\ idx = 0
    /\ pos = 0
    /\ link = <<>>
    /\ log = <<>>
    /\ err = ""

\* AsyncClient.connect: creates the AckManager and registers its handler.
Connect ==
    /\ ~connected
    /\ pc = "idle"
    /\ connected' = TRUE
    /\ window_event' = FALSE
    /\ all_event' = FALSE
    /\ UNCHANGED <<call, plan, pc, idx, pos, link, log, err>>

\* A command method called before connect(): _ensure_connected raises.
MethodNotConnected ==
    /\ pc = "idle"
    /\ ~connected
    /\ \E level \in Levels :
          call' = [cmd |-> "set_brightness", arg |-> level]
    /\ pc' = "rejected"
    /\ err' = "NotConnected"
    /\ plan' = NoPlan
    /\ idx' = 0 /\ pos' = 0 /\ link' = <<>> /\ log' = <<>>
    /\ UNCHANGED <<connected, window_event, all_event>>

\* send_plan entered with plan p: runs to its first await.
Enter(p) ==
    /\ plan' = p
    /\ err' = ""
    /\ Become(for_windows(p, Frame("idle", 0, 0, window_event, all_event,
                                   <<>>, <<>>)))

\* The command method of a connected client: builds the plan with the
\* command function, then sends it.
Method ==
    /\ pc = "idle"
    /\ connected
    /\ \E level \in Levels :
          LET built == set_brightness(level)
          IN /\ call' = [cmd |-> "set_brightness", arg |-> level]
             /\ IF built = Raise
                THEN /\ pc' = "rejected"
                     /\ err' = "ValueError"
                     /\ plan' = NoPlan
                     /\ idx' = 0 /\ pos' = 0 /\ link' = <<>> /\ log' = <<>>
                     /\ UNCHANGED <<window_event, all_event>>
                ELSE Enter(built)
    /\ UNCHANGED connected

\* send_plan called directly on a connected client's link.
SendPlanCall ==
    /\ pc = "idle"
    /\ connected
    /\ \E p \in PlanSet :
          /\ call' = [cmd |-> "send_plan", arg |-> 0]
          /\ Enter(p)
    /\ UNCHANGED connected

\* `await client.write_gatt_char(...)` returns: the generator advances
\* (pos = end) and the coroutine runs to the next await.
WriteReturn ==
    /\ pc = "writing"
    /\ LET total == Len(plan.windows[idx + 1].data)
           end == chunk_end(pos, plan.chunk_size, total)
       IN Become(for_chunks(plan,
              [Here EXCEPT !.pos = end,
                           !.log = Append(@, Entry("write_ok", idx, <<>>))]))
    /\ UNCHANGED <<connected, call, plan, err>>

\* The failed write skipped: the coroutine goes on with the next chunk.
WriteFailSkipped ==
    /\ pc = "writing"
    /\ LET total == Len(plan.windows[idx + 1].data)
           end == chunk_end(pos, plan.chunk_size, total)
       IN Become(for_chunks(plan,
              [Here EXCEPT !.pos = end,
                           !.log = Append(@, Entry("write_failed", idx, <<>>))]))
    /\ UNCHANGED <<connected, call, plan, err>>

\* `await client.write_gatt_char(...)` raises: the exception leaves send_plan.
WriteFail ==
    /\ pc = "writing"
    /\ pc' = "failed"
    /\ err' = "LinkWriteFailure"
    /\ log' = Append(log, Entry("write_failed", idx, <<>>))
    /\ UNCHANGED <<connected, window_event, all_event, call, plan, idx, pos,
                   link>>

\* wait_for(window_event.wait()) returns: next window.
WindowAcked ==
    /\ pc = "wait_window"
    /\ window_event
    /\ Become(for_windows(plan,
          [Here EXCEPT !.idx = @ + 1,
                       !.log = Append(@, Entry("window_acked", idx, <<>>))]))
    /\ UNCHANGED <<connected, call, plan, err>>

\* The window timeout tolerated like the final one: on to the next window.
WindowTimeoutSwallowed ==
    /\ pc = "wait_window"
    /\ ~window_event
    /\ Become(for_windows(plan,
          [Here EXCEPT !.idx = @ + 1,
                       !.log = Append(@, Entry("window_timeout", idx, <<>>))]))
    /\ UNCHANGED <<connected, call, plan, err>>

\* window_event.wait() awaited without a timeout: it never times out.
WindowTimeoutNever ==
    /\ pc = "wait_window"
    /\ FALSE
    /\ UNCHANGED vars

\* wait_for(window_event.wait()) times out: RuntimeError.
WindowTimeout ==
    /\ pc = "wait_window"
    /\ ~window_event
    /\ pc' = "failed"
    /\ err' = "cur12k_no_answer"
    /\ log' = Append(log, Entry("window_timeout", idx, <<>>))
    /\ UNCHANGED <<connected, window_event, all_event, call, plan, idx, pos,
                   link>>

\* wait_for(all_event.wait()) returns.
FinalAcked ==
    /\ pc = "wait_final"
    /\ all_event
    /\ pc' = "done"
    /\ log' = Append(log, Entry("final_acked", idx, <<>>))
    /\ UNCHANGED <<connected, window_event, all_event, call, plan, idx, pos,
                   link, err>>

\* The final timeout raised like the window one.
FinalTimeoutRaises ==
    /\ pc = "wait_final"
    /\ ~all_event
    /\ pc' = "failed"
    /\ err' = "cur12k_no_answer"
    /\ log' = Append(log, Entry("final_timeout", idx, <<>>))
    /\ UNCHANGED <<connected, window_event, all_event, call, plan, idx, pos,
                   link>>

\* wait_for(all_event.wait()) times out: `except TimeoutError: pass`.
FinalTimeout ==
    /\ pc = "wait_final"
    /\ ~all_event
    /\ pc' = "done"
    /\ log' = Append(log, Entry("final_timeout", idx, <<>>))
    /\ UNCHANGED <<connected, window_event, all_event, call, plan, idx, pos,
                   link, err>>

\* The caller cancels the task: CancelledError is raised at the await the
\* coroutine is suspended on and leaves send_plan (no except, no finally).
Cancel ==
    /\ pc \in Suspended
    /\ pc' = "cancelled"
    /\ err' = "CancelledError"
    /\ log' = Append(log, Entry("cancel", idx, <<>>))
    /\ UNCHANGED <<connected, window_event, all_event, call, plan, idx, pos,
                   link>>

\* The method hands its outcome (return or exception) to the caller; the
\* client is ready for the next command.
Return ==
    /\ pc \in Terminal
    /\ pc' = "idle"
    /\ call' = NoCall
    /\ plan' = NoPlan
    /\ idx' = 0 /\ pos' = 0 /\ link' = <<>> /\ log' = <<>>
    /\ err' = ""
    /\ UNCHANGED <<connected, window_event, all_event>>

\* The link delivers a notification frame to the handler.
Notify(frame) ==
    /\ connected
    /\ LET r == handler(frame, window_event, all_event)
       IN /\ window_event' = r[1]
          /\ all_event' = r[2]
    /\ UNCHANGED <<connected, call, plan, pc, idx, pos, link, log, err>>

Notification == \E frame \in LinkFrames : Notify(frame)

Next ==
    \/ Connect
    \/ MethodNotConnected
    \/ Method
    \/ SendPlanCall
    \/ WriteReturn
    \/ WriteFail
    \/ WindowAcked
    \/ WindowTimeout
    \/ FinalAcked
    \/ FinalTimeout
    \/ Cancel
    \/ Return
    \/ Notification

Spec == Init /\ [][Next]_vars

\* Every link write eventually returns or fails, every wait eventually
\* returns or times out.
FairSpec ==
    /\ Spec
    /\ WF_vars(WriteReturn \/ WriteFail)
    /\ WF_vars(WindowAcked \/ WindowTimeout)
    /\ WF_vars(FinalAcked \/ FinalTimeout)

\* ------------------------------------------------- the handler on its own
\* The notification handler applied once to any frame, from any state of
\* the two signals.
HandlerInit ==
    /\ connected = TRUE
    /\ window_event \in BOOLEAN
    /\ all_event \in BOOLEAN
    /\ \E f \in Frames : call = [cmd |-> "notify", arg |-> f]
    /\ plan = NoPlan
    /\ pc = "idle"
    /\ idx = 0
    /\ pos = 0
    /\ link = <<>>
    /\ log = <<>>
    /\ err = ""

HandleFrame ==
    /\ pc = "idle"
    /\ call.cmd = "notify"
    /\ LET r == handler(call.arg, window_event, all_event)
       IN /\ window_event' = r[1]
          /\ all_event' = r[2]
    /\ pc' = "handled"
    /\ UNCHANGED <<connected, call, plan, idx, pos, link, log, err>>

HandlerNext == HandleFrame

HandlerSpec == HandlerInit /\ [][HandlerNext]_vars

\* ------------------------------------------------------------- hex strings
\* A hexadecimal string is the sequence of the values (0..15) of its digits.
\* bytes.hex(): two digits for each byte, the high one first.
hex_of(b) ==
    LET n == Len(b)
    IN  [i \in 1..(2 * n) |->
            IF i % 2 = 1 THEN b[(i + 1) \div 2] \div 16 ELSE b[i \div 2] % 16]

\* bytes.fromhex() of a string with an even number of digits.
fromhex(h) ==
    LET n == Len(h) \div 2 IN [i \in 1..n |-> 16 * h[2 * i - 1] + h[2 * i]]

\* hex(n)[2:]: the digits of n without leading zeros.
RECURSIVE hex_digits(_)
hex_digits(n) ==
    IF n < 16 THEN <<n>> ELSE Append(hex_digits(n \div 16), n % 16)

\* str.zfill(width): pads on the left, never cuts.
zfill(s, width) ==
    IF Len(s) >= width THEN s ELSE [i \in 1..(width - Len(s)) |-> 0] \o s

\* switch_endian raises ValueError on a string with an odd number of digits.
switch_endian_raises(hex_string) == Len(hex_string) % 2 # 0

\* switch_endian of a string it accepts: the octets in reverse order.
switch_endian(hex_string) ==
    LET n == Len(hex_string) \div 2
    IN  [i \in 1..(2 * n) |->
            hex_string[2 * (n - ((i + 1) \div 2)) + (IF i % 2 = 1 THEN 1 ELSE 2)]]

\* get_frame_size(data, size): the string handed to switch_endian.
frame_size_digits(data, size) == zfill(hex_digits(Len(data) \div 2), size)

get_frame_size_raises(data, size) ==
    switch_endian_raises(frame_size_digits(data, size))

get_frame_size(data, size) == switch_endian(frame_size_digits(data, size))

\* ------------------------------------------------------------------ CRC-32
\* binascii.crc32.  A 32-bit value is the sequence of its four bytes, the
\* most significant first.
RECURSIVE Xor(_, _)
Xor(a, b) ==
    IF a = 0 THEN b
    ELSE IF b = 0 THEN a
    ELSE ((a + b) % 2) + 2 * Xor(a \div 2, b \div 2)

Xor4(x, y) == [i \in 1..4 |-> Xor(x[i], y[i])]

Shr1(c) ==
    [i \in 1..4 |->
        (c[i] \div 2) + (IF i > 1 THEN 128 * (c[i - 1] % 2) ELSE 0)]

CrcPoly == <<237, 184, 131, 32>>

RECURSIVE CrcBits(_, _)
CrcBits(c, k) ==
    IF k = 0 THEN c
    ELSE CrcBits(IF c[4] % 2 = 1 THEN Xor4(Shr1(c), CrcPoly) ELSE Shr1(c),
                 k - 1)

CrcTable == [b \in 0..255 |-> CrcBits(<<0, 0, 0, b>>, 8)]

CrcByte(crc, byte) ==
    Xor4(CrcTable[Xor(crc[4], byte)], <<0, crc[1], crc[2], crc[3]>>)

\* The register after bytes lo..hi of buf, folded left to right.
RECURSIVE CrcRange(_, _, _, _)
CrcRange(buf, crc, lo, hi) ==
    IF lo > hi THEN crc
    ELSE IF lo = hi THEN CrcByte(crc, buf[lo])
    ELSE LET mid == (lo + hi) \div 2
             left == CrcRange(buf, crc, lo, mid)
         IN  IF left[1] >= 0 THEN CrcRange(buf, left, mid + 1, hi) ELSE left

crc32(buf) ==
    Xor4(CrcRange(buf, <<255, 255, 255, 255>>, 1, Len(buf)),
         <<255, 255, 255, 255>>)

\* CRC32_checksum(data): "08x" writes the value most significant byte
\* first, switch_endian then reverses the four octets.
CRC32_checksum(data) == switch_endian(hex_of(crc32(fromhex(data))))

\* --------------------------------------------------- fixed-layout commands
\* bytes([...]) raises ValueError unless every value is in range(0, 256).
IsBytes(s) == \A i \in 1..Len(s) : s[i] \in 0..255

\* validate_range raises ValueError.
validate_range_raises(value, min_val, max_val) ==
    ~(min_val <= value /\ value <= max_val)

\* A command function that returns a bytes object instead of a SendPlan.
RawBytes(data) == [id |-> "bytes", data |-> data]

clear == single_window_plan("clear", <<4, 0, 3, 128>>, TRUE)

set_fun_mode(enable) ==
    single_window_plan("set_fun_mode",
                       <<5, 0, 4, 1, IF enable THEN 1 ELSE 0>>, TRUE)

set_orientation(orientation) ==
    IF orientation < 0 \/ orientation > 3
    THEN Raise
    ELSE single_window_plan("set_orientation",
                            <<5, 0, 6, 128, orientation>>, TRUE)

set_power(on) ==
    single_window_plan("set_power", <<5, 0, 7, 1, IF on THEN 1 ELSE 0>>, TRUE)

\* device_info is [present, width, height]; color is a string of hex
\* digits, a value above 15 standing for a character that is not one.
set_pixel(x, y, color, device_info) ==
    IF device_info.present
       /\ ~(0 <= x /\ x <= device_info.width - 1
            /\ 0 <= y /\ y <= device_info.height - 1)
    THEN Raise
    ELSE IF ~(Len(color) = 6 /\ \A i \in 1..Len(color) : color[i] \in 0..15)
    THEN Raise
    ELSE LET payload == <<10, 0, 5, 1, 0>> \o fromhex(color) \o <<x, y>>
         IN  IF ~IsBytes(payload)
             THEN Raise
             ELSE single_window_plan("set_pixel", payload, FALSE)

delete(n) ==
    IF ~(0 <= n /\ n <= 255)
    THEN Raise
    ELSE single_window_plan("delete_screen", <<7, 0, 2, 1, 1, 0, n>>, TRUE)

\* datetime(year, month, day).weekday(), Monday = 0, of the proleptic
\* Gregorian calendar; the constructor raises ValueError outside it.
IsLeap(y) == y % 4 = 0 /\ (y % 100 # 0 \/ y % 400 = 0)

DaysInMonth(y, m) ==
    IF m = 2 THEN (IF IsLeap(y) THEN 29 ELSE 28)
    ELSE IF m \in {4, 6, 9, 11} THEN 30 ELSE 31

datetime_raises(y, m, d) ==
    ~(/\ 1 <= y /\ y <= 9999
      /\ 1 <= m /\ m <= 12
      /\ 1 <= d /\ d <= DaysInMonth(y, m))

DaysBeforeYear(y) ==
    LET p == y - 1 IN p * 365 + p \div 4 - p \div 100 + p \div 400

DaysBeforeMonth(y, m) ==
    <<0, 31, 59, 90, 120, 151, 181, 212, 243, 273, 304, 334>>[m]
        + (IF m > 2 /\ IsLeap(y) THEN 1 ELSE 0)

weekday(y, m, d) == (DaysBeforeYear(y) + DaysBeforeMonth(y, m) + d + 6) % 7

\* date is the list map(int, date.split("/")) yields, empty for the empty
\* string; now is the system date [year, month, day].
set_clock_mode(style, date, show_date, format_24, now) ==
    LET given == date # <<>>
        bad_date == given /\ (Len(date) # 3
                              \/ datetime_raises(date[3], date[2], date[1]))
        day == IF given THEN date[1] ELSE now.day
        month == IF given THEN date[2] ELSE now.month
        year == IF given THEN date[3] ELSE now.year % 100
        day_of_week == IF given THEN weekday(date[3], date[2], date[1]) + 1
                       ELSE weekday(now.year, now.month, now.day) + 1
    IN  IF bad_date
        THEN Raise
        ELSE IF \/ validate_range_raises(style, 0, 8)
                \/ validate_range_raises(day_of_week, 1, 7)
                \/ validate_range_raises(month, 1, 12)
                \/ validate_range_raises(day, 1, 31)
                \/ validate_range_raises(year, 0, 99)
        THEN Raise
        ELSE single_window_plan(
                 "set_clock_mode",
                 <<11, 0, 6, 1, style, IF format_24 THEN 1 ELSE 0,
                   IF show_date THEN 1 ELSE 0, year, month, day,
                   day_of_week>>,
                 FALSE)

\* levels is the list [l1, ..., l11].
set_rhythm_mode(style, levels) ==
    IF validate_range_raises(style, 0, 4)
    THEN Raise
    ELSE IF \E i \in 1..Len(levels) : ~(0 <= levels[i] /\ levels[i] <= 15)
    THEN Raise
    ELSE single_window_plan("set_rhythm_mode",
                            <<16, 0, 1, 2, style>> \o levels, TRUE)

set_rhythm_mode_2(style, t) ==
    IF validate_range_raises(style, 0, 1)
    THEN Raise
    ELSE IF validate_range_raises(t, 0, 7)
    THEN Raise
    ELSE single_window_plan("set_rhythm_mode_2", <<6, 0, 0, 2, t, style>>,
                            TRUE)

\* time is <<hour, minute, second>>, or shorter when an argument is None;
\* now is the system time [hour, minute, second].
set_time(time, now) ==
    LET none == Len(time) < 3
        hour == IF none THEN now.hour ELSE time[1]
        minute == IF none THEN now.minute ELSE time[2]
        second == IF none THEN now.second ELSE time[3]
    IN  IF \/ validate_range_raises(hour, 0, 23)
           \/ validate_range_raises(minute, 0, 59)
           \/ validate_range_raises(second, 0, 59)
        THEN Raise
        ELSE RawBytes(<<8, 0, 1, 128, hour, minute, second, 0>>)

\* get_device_info: the payload of build_get_device_info_command.
get_device_info(now) ==
    single_window_plan("get_device_info",
                       <<8, 0, 1, 128, now.hour, now.minute, now.second, 0>>,
                       FALSE)

\* -------------------------------------------------------------- send_image
\* The image handed to send_image: a file (its bytes and whether its suffix
\* is .gif) or a hexadecimal string (the digits of its bytes).  No
\* device_info is passed, so the image is not resized.
ImageFile(content, gif_suffix) ==
    [is_file |-> TRUE, gif_suffix |-> gif_suffix, content |-> content]

ImageHex(content) ==
    [is_file |-> FALSE, gif_suffix |-> FALSE, content |-> content]

\* _load_from_file / _load_from_hex: the is_gif flag.
load_is_gif(image) ==
    IF image.is_file
    THEN image.gif_suffix
    ELSE IsPrefix(<<4, 7, 4, 9, 4, 6>>, hex_of(image.content))

hex_len_prefix_raises(inner_hex) ==
    get_frame_size_raises(<<15, 15, 15, 15>> \o inner_hex, 4)

hex_len_prefix_for(inner_hex) ==
    fromhex(get_frame_size(<<15, 15, 15, 15>> \o inner_hex, 4))

\* The payload of a window cut one byte short.
gif_chunk_payload_short(gif, at, window_end) ==
    SubSeq(gif, at + 1, window_end - 1)

\* gif[pos:window_end]
gif_chunk_payload(gif, at, window_end) == SubSeq(gif, at + 1, window_end)

gif_header(window_index, size_bytes, crc_bytes) ==
    LET option == IF window_index = 0 THEN 0 ELSE 2
        serial == IF window_index = 0 THEN 1 ELSE 101
    IN  <<3, 0, option>> \o size_bytes \o crc_bytes \o <<2, serial>>

\* The frame whose header holds the length and the CRC-32 of its own payload.
gif_frame_own_fields(gif, at, window_index, size_bytes, crc_bytes) ==
    LET payload == gif_chunk_payload(gif, at, Min(at + window_size, Len(gif)))
    IN  gif_header(window_index,
                   fromhex(get_frame_size(hex_of(payload), 8)),
                   fromhex(CRC32_checksum(hex_of(payload))))
            \o payload

\* One pass of the while loop: the frame of the window that starts at `at`.
gif_frame(gif, at, window_index, size_bytes, crc_bytes) ==
    gif_header(window_index, size_bytes, crc_bytes)
        \o gif_chunk_payload(gif, at, Min(at + window_size, Len(gif)))

RECURSIVE gif_windows(_, _, _, _, _)
gif_windows(gif, at, window_index, size_bytes, crc_bytes) ==
    IF ~(at < Len(gif))
    THEN <<>>
    ELSE LET frame == gif_frame(gif, at, window_index, size_bytes, crc_bytes)
             message == hex_len_prefix_for(hex_of(frame)) \o frame
         IN  <<Window(message, TRUE)>>
                 \o gif_windows(gif, Min(at + window_size, Len(gif)),
                                window_index + 1, size_bytes, crc_bytes)

RECURSIVE gif_raises(_, _, _, _, _)
gif_raises(gif, at, window_index, size_bytes, crc_bytes) ==
    /\ at < Len(gif)
    /\ \/ hex_len_prefix_raises(
              hex_of(gif_frame(gif, at, window_index, size_bytes, crc_bytes)))
       \/ gif_raises(gif, Min(at + window_size, Len(gif)), window_index + 1,
                     size_bytes, crc_bytes)

send_image(image) ==
    LET file_bytes == image.content
        is_gif == load_is_gif(image)
        image_hex == hex_of(file_bytes)
        checksum == CRC32_checksum(image_hex)
        size_hex == get_frame_size(image_hex, 8)
        inner_hex == <<0, 2, 0, 0, 0, 0>> \o size_hex \o checksum
                         \o <<0, 0, 6, 5>> \o image_hex
    IN  IF get_frame_size_raises(image_hex, 8)
        THEN Raise
        ELSE IF ~is_gif
        THEN IF hex_len_prefix_raises(inner_hex)
             THEN Raise
             ELSE single_window_plan(
                      "send_image",
                      fromhex(get_frame_size(<<15, 15, 15, 15>> \o inner_hex, 4)
                                  \o inner_hex),
                      TRUE)
        ELSE IF gif_raises(file_bytes, 0, 0, fromhex(size_hex),
                           fromhex(checksum))
        THEN Raise
        ELSE SendPlan("send_image",
                      gif_windows(file_bytes, 0, 0, fromhex(size_hex),
                                  fromhex(checksum)),
                      DefaultChunkSize, AckPolicy(TRUE, TRUE))

\* --------------------------------------------------------------- bit tools
RECURSIVE BitAnd(_, _)
BitAnd(a, b) ==
    IF a = 0 \/ b = 0 THEN 0
    ELSE (a % 2) * (b % 2) + 2 * BitAnd(a \div 2, b \div 2)

RECURSIVE BitOr(_, _)
BitOr(a, b) ==
    IF a = 0 THEN b
    ELSE IF b = 0 THEN a
    ELSE (IF a % 2 = 1 \/ b % 2 = 1 THEN 1 ELSE 0)
             + 2 * BitOr(a \div 2, b \div 2)

Shl(a, k) == a * 2^k

Shr(a, k) == a \div 2^k

\* reverse_bits_16 without its last stage (the swap of adjacent bits).
reverse_bits_16_three_stages(n) ==
    LET n1 == BitOr(Shr(BitAnd(n, 65280), 8), Shl(BitAnd(n, 255), 8))
        n2 == BitOr(Shr(BitAnd(n1, 61680), 4), Shl(BitAnd(n1, 3855), 4))
        n3 == BitOr(Shr(BitAnd(n2, 52428), 2), Shl(BitAnd(n2, 13107), 2))
    IN  n3

\* The masks are 0xFF00/0x00FF, 0xF0F0/0x0F0F, 0xCCCC/0x3333, 0xAAAA/0x5555.
reverse_bits_16(n) ==
    LET n1 == BitOr(Shr(BitAnd(n, 65280), 8), Shl(BitAnd(n, 255), 8))
        n2 == BitOr(Shr(BitAnd(n1, 61680), 4), Shl(BitAnd(n1, 3855), 4))
        n3 == BitOr(Shr(BitAnd(n2, 52428), 2), Shl(BitAnd(n2, 13107), 2))
        n4 == BitOr(Shr(BitAnd(n3, 43690), 1), Shl(BitAnd(n3, 21845), 1))
    IN  n4

\* _invert_frames_bytes and _logic_reverse_bits_order_bytes raise ValueError
\* on data of odd length.
invert_frames_bytes_raises(data) == Len(data) % 2 # 0

\* The 2-byte chunks in reverse order.
invert_frames_bytes(data) ==
    LET k == Len(data) \div 2
    IN  [i \in 1..(2 * k) |->
            data[2 * (k - ((i + 1) \div 2)) + (IF i % 2 = 1 THEN 1 ELSE 2)]]

\* The bytes left in their order.
switch_endian_bytes_keep(data) == data

\* data[::-1]
switch_endian_bytes(data) ==
    LET n == Len(data) IN [i \in 1..n |-> data[n + 1 - i]]

logic_reverse_bits_order_bytes_raises(data) == Len(data) % 2 # 0

\* Each 2-byte chunk read big-endian, reversed, written big-endian.
logic_reverse_bits_order_bytes(data) ==
    LET n == Len(data)
    IN  [i \in 1..n |->
            LET k == (i + 1) \div 2
                rev == reverse_bits_16(256 * data[2 * k - 1] + data[2 * k])
            IN  IF i % 2 = 1 THEN rev \div 256 ELSE rev % 256]

\* ------------------------------------------------------------ glyph packing
\* A character image: px[y][x] is the value getpixel((x, y)) returns after
\* convert("L").
Image(width, height, px) == [width |-> width, height |-> height, px |-> px]

\* 1 << (31 - x) raises ValueError (negative shift count) for a lit pixel at
\* x >= 32.
charimg_to_hex_string_raises(img) ==
    \E y \in 0..(img.height - 1) : \E x \in 32..(img.width - 1) :
        img.px[y][x] > 0

\* line_value (second = FALSE) or line_value_2 (second = TRUE) of row y
\* after the pixels x, x + 1, ... of the row; the bits set are distinct, so
\* |= adds them.
RECURSIVE line_bits(_, _, _, _)
line_bits(img, y, x, second) ==
    IF x >= img.width
    THEN 0
    ELSE (IF img.px[y][x] > 0 /\ (x >= 16) = second
          THEN 2^((IF second THEN 31 ELSE 15) - x)
          ELSE 0)
             + line_bits(img, y, x + 1, second)

\* f"{value:0{width}X}"
format_hex(value, width) == zfill(hex_digits(value), width)

\* The row with its bits in the order of the pixels' x.
row_hex_mirrored(img, y) ==
    LET lv == line_bits(img, y, 0, FALSE)
    IN  format_hex(reverse_bits_16(lv), 4)

\* The digits one row adds to hex_string.  The merged 32-bit value
\* line_value_2 | (line_value << 16) is kept as its two 16-bit halves.
row_hex(img, y) ==
    LET lv == line_bits(img, y, 0, FALSE)
        lv2 == line_bits(img, y, 0, TRUE)
    IN  IF img.width <= 8 THEN format_hex(Shr(lv, 8), 2)
        ELSE IF img.width <= 16 THEN format_hex(lv, 4)
        ELSE IF img.width <= 24
        THEN format_hex(Shl(lv, 8) + Shr(lv2, 8), 6)
        ELSE format_hex(lv, 4) \o format_hex(lv2, 4)

\* (hex_string, char_width)
charimg_to_hex_string(img) ==
    <<Concat([y \in 1..img.height |-> row_hex(img, y - 1)]), img.width>>

\* The three transforms of _encode_text, in its order.
glyph_wire_raises(char_bytes) ==
    \/ invert_frames_bytes_raises(char_bytes)
    \/ logic_reverse_bits_order_bytes_raises(
           switch_endian_bytes(invert_frames_bytes(char_bytes)))

\* The transforms of _encode_text without the reversal of the bits.
glyph_wire_two_stages(char_bytes) ==
    switch_endian_bytes(invert_frames_bytes(char_bytes))

glyph_wire(char_bytes) ==
    logic_reverse_bits_order_bytes(
        switch_endian_bytes(invert_frames_bytes(char_bytes)))

\* --------------------------------------------------------------- send_text
\* A character of the text is what the rasterizer makes of it: the image
\* char_to_hex draws (between 9 and 16 pixels wide, text_size high), or a
\* failure.
Char(fails, img) == [fails |-> fails, img |-> img]

\* char_to_hex: any exception gives (None, 0); None is the empty string here.
char_to_hex(char) ==
    IF char.fails \/ charimg_to_hex_string_raises(char.img)
    THEN <<<<>>, 0>>
    ELSE charimg_to_hex_string(char.img)

\* Characters _encode_text does not skip.
encoded_chars(text) ==
    SelectSeq(text, LAMBDA char : char_to_hex(char)[1] # <<>>)

encode_text_raises(text) ==
    LET chars == encoded_chars(text)
    IN  \E i \in 1..Len(chars) :
            glyph_wire_raises(fromhex(char_to_hex(chars[i])[1]))

encode_text(text, text_size, color_bytes) ==
    LET chars == encoded_chars(text)
    IN  Concat([i \in 1..Len(chars) |->
                   LET r == char_to_hex(chars[i])
                   IN  <<128>> \o color_bytes
                           \o <<r[2] % 256, text_size % 256>>
                           \o glyph_wire(fromhex(r[1]))])

\* int.to_bytes raises OverflowError when the value needs more bytes.
to_bytes_raises(value, length) == value >= 256^length

to_bytes_little_2(value) == <<value % 256, value \div 256>>

\* The first value of the header written big-endian.
send_text_header_big_endian(n, text_size) ==
    LET header_gap == 6 + text_size * 2
        header1_val == 29 + n * header_gap
        header3_val == 14 + n * header_gap
    IN  <<header1_val \div 256, header1_val % 256>> \o <<0, 1, 0>>
            \o to_bytes_little_2(header3_val) \o <<0, 0>>

send_text_header_raises(n, text_size) ==
    \/ to_bytes_raises(29 + n * (6 + text_size * 2), 2)
    \/ to_bytes_raises(14 + n * (6 + text_size * 2), 2)

\* payload[:header_len]: header 1, "000100", header 3, two zero bytes, for
\* a text of n characters.
send_text_header(n, text_size) ==
    LET header_gap == 6 + text_size * 2
        header1_val == 29 + n * header_gap
        header3_val == 14 + n * header_gap
    IN  to_bytes_little_2(header1_val) \o <<0, 1, 0>>
            \o to_bytes_little_2(header3_val) \o <<0, 0>>

\* The range checks of send_text without the check of animations 3 and 4.
send_text_checks_range_only(a) ==
    \/ ~(0 <= a.rainbow_mode /\ a.rainbow_mode <= 9)
    \/ ~(0 <= a.animation /\ a.animation <= 7)
    \/ ~(1 <= a.save_slot /\ a.save_slot <= 10)
    \/ ~(0 <= a.speed /\ a.speed <= 100)
    \/ ~(1 <= Len(a.text) /\ Len(a.text) <= 100)
    \/ ~(1 <= a.text_size /\ a.text_size <= 128)

\* The checks list, then the check of the unsupported animations.
send_text_checks_raise(a) ==
    \/ ~(0 <= a.rainbow_mode /\ a.rainbow_mode <= 9)
    \/ ~(0 <= a.animation /\ a.animation <= 7)
    \/ ~(1 <= a.save_slot /\ a.save_slot <= 10)
    \/ ~(0 <= a.speed /\ a.speed <= 100)
    \/ ~(1 <= Len(a.text) /\ Len(a.text) <= 100)
    \/ ~(1 <= a.text_size /\ a.text_size <= 128)
    \/ a.animation = 3 \/ a.animation = 4

\* bytes.fromhex(color) fails, or does not give 3 bytes.
color_raises(color) ==
    \/ \E i \in 1..Len(color) : color[i] \notin 0..15
    \/ Len(color) % 2 # 0
    \/ Len(color) \div 2 # 3

\* send_text with the CRC-32 taken over the save slot too.
send_text_crc_from_slot(a) ==
    IF send_text_checks_raise(a)
    THEN Raise
    ELSE IF send_text_header_raises(Len(a.text), a.text_size)
    THEN Raise
    ELSE IF color_raises(a.color)
    THEN Raise
    ELSE IF encode_text_raises(a.text)
    THEN Raise
    ELSE LET num_chars_byte == <<Len(a.text)>>
             color_bytes == fromhex(a.color)
             properties ==
                 <<0, 1, 1, a.animation % 256, a.speed % 256,
                   a.rainbow_mode % 256>> \o color_bytes \o <<0, 0, 0, 0>>
             characters_bytes == encode_text(a.text, a.text_size, color_bytes)
             crc == crc32(<<0, a.save_slot>> \o num_chars_byte \o properties
                              \o characters_bytes)
             checksum_bytes == <<crc[4], crc[3], crc[2], crc[1]>>
         IN  single_window_plan(
                 "send_text",
                 send_text_header(Len(a.text), a.text_size)
                     \o checksum_bytes \o <<0, a.save_slot>>
                     \o num_chars_byte \o properties \o characters_bytes,
                 TRUE)

\* a is [text, rainbow_mode, animation, save_slot, speed, color, text_size].
send_text(a) ==
    IF send_text_checks_raise(a)
    THEN Raise
    ELSE IF send_text_header_raises(Len(a.text), a.text_size)
    THEN Raise
    ELSE IF color_raises(a.color)
    THEN Raise
    ELSE IF encode_text_raises(a.text)
    THEN Raise
    ELSE LET num_chars_byte == <<Len(a.text)>>
             color_bytes == fromhex(a.color)
             properties ==
                 <<0, 1, 1, a.animation % 256, a.speed % 256,
                   a.rainbow_mode % 256>> \o color_bytes \o <<0, 0, 0, 0>>
             characters_bytes == encode_text(a.text, a.text_size, color_bytes)
             crc == crc32(num_chars_byte \o properties \o characters_bytes)
             checksum_bytes == <<crc[4], crc[3], crc[2], crc[1]>>
         IN  single_window_plan(
                 "send_text",
                 send_text_header(Len(a.text), a.text_size)
                     \o checksum_bytes \o <<0, a.save_slot>>
                     \o num_chars_byte \o properties \o characters_bytes,
                 TRUE)

\* ----------------------------------------------- command functions, alone
\* Argument sets: each range with its two ends and the values just outside.
Orientations == {-1, 0, 1, 3, 4}

ScreenIndexes == {-1, 0, 1, 255, 256}

Coordinates == {-1, 0, 15, 16, 256}

\* "ff0000", "0123ab", a string that is too short, one with a foreign
\* character.
Colors ==
    {<<15, 15, 0, 0, 0, 0>>, <<0, 1, 2, 3, 10, 11>>, <<15, 15, 15>>,
     <<15, 15, 0, 0, 0, 16>>}

NoDevice == [present |-> FALSE, width |-> 0, height |-> 0]

Devices == {NoDevice, [present |-> TRUE, width |-> 16, height |-> 16]}

ClockStyles == {-1, 0, 8, 9}

\* "", "25/12/24", "25/12/2024", "31/02/24", "29/02/24", "01/01", "14/07/99",
\* "01/01/00", "01/13/24".
Dates ==
    {<<>>, <<25, 12, 24>>, <<25, 12, 2024>>, <<31, 2, 24>>, <<29, 2, 24>>,
     <<1, 1>>, <<14, 7, 99>>, <<1, 1, 0>>, <<1, 13, 24>>}

\* Readings of the system clock.
Nows ==
    {[year |-> 2024, month |-> 2, day |-> 29,
      hour |-> 0, minute |-> 0, second |-> 0],
     [year |-> 2026, month |-> 11, day |-> 1,
      hour |-> 23, minute |-> 59, second |-> 59]}

RhythmStyles == {-1, 0, 1, 4, 5}

LevelLists ==
    {[i \in 1..11 |-> 0], [i \in 1..11 |-> 15], [i \in 1..11 |-> i],
     [i \in 1..11 |-> IF i = 11 THEN 16 ELSE 0],
     [i \in 1..11 |-> IF i = 1 THEN -1 ELSE 0]}

RhythmTimes == {-1, 0, 7, 8}

Times ==
    {<<>>} \cup {<<h, m, s>> : h \in {-1, 0, 23, 24}, m \in {0, 59, 60},
                              s \in {0, 59, 60}}

\* Image contents: every string of at most MaxLen of the bytes "G", "I", "F".
ImageContents == UNION {[1..n -> {71, 73, 70}] : n \in 0..MaxLen}

Images ==
    {ImageFile(c, g) : c \in ImageContents, g \in BOOLEAN}
        \cup {ImageHex(c) : c \in ImageContents}

\* ------------------------------------------------ arguments of send_text
\* Images: unlit, lit, every second column lit, one column lit (with the
\* smallest lit value), the diagonal lit.
PixelOf(kind, col, x, y, width) ==
    CASE kind = "off" -> 0
      [] kind = "on" -> 255
      [] kind = "even" -> IF x % 2 = 0 THEN 255 ELSE 0
      [] kind = "column" -> IF x = col THEN 1 ELSE 0
      [] kind = "diagonal" -> IF x = y % width THEN 255 ELSE 0

GlyphImage(width, height, kind, col) ==
    Image(width, height,
          [y \in 0..(height - 1) |->
              [x \in 0..(width - 1) |-> PixelOf(kind, col, x, y, width)]])

\* What the rasterizer makes of a character at a text size: it fails, or
\* draws an image of the clamped width.
CharsOf(text_size) ==
    {Char(TRUE, GlyphImage(0, 0, "off", 0))}
        \cup {Char(FALSE, GlyphImage(w, text_size, k, 0)) :
                 w \in {9, 16}, k \in {"off", "on"}}

TextSizes == {0, 1, 16, 128, 129}

\* The empty text, the texts of one character, two texts of two characters
\* and, at text size 1, a text of 100 characters and one of 101.
TextsOf(text_size) ==
    {<<>>}
        \cup {<<c>> : c \in CharsOf(text_size)}
        \cup {<<Char(FALSE, GlyphImage(9, text_size, "on", 0)), c>> :
                 c \in {Char(TRUE, GlyphImage(0, 0, "off", 0)),
                        Char(FALSE, GlyphImage(16, text_size, "even", 0))}}
        \cup {[i \in 1..n |-> Char(FALSE, GlyphImage(9, text_size, "on", 0))] :
                 n \in IF text_size = 1 THEN {100, 101} ELSE {}}

Animations == -1..8

\* rainbow_mode, save_slot, speed, color: the defaults, the far ends of the
\* ranges, and each argument out of its range in turn.
OtherTextArgs ==
    {<<0, 1, 80, <<15, 15, 15, 15, 15, 15>>>>,
     <<9, 10, 100, <<0, 1, 2, 3, 10, 11>>>>,
     <<0, 1, 0, <<15, 15, 0, 0, 0, 0>>>>,
     <<-1, 1, 80, <<15, 15, 15, 15, 15, 15>>>>,
     <<10, 1, 80, <<15, 15, 15, 15, 15, 15>>>>,
     <<0, 0, 80, <<15, 15, 15, 15, 15, 15>>>>,
     <<0, 11, 80, <<15, 15, 15, 15, 15, 15>>>>,
     <<0, 1, -1, <<15, 15, 15, 15, 15, 15>>>>,
     <<0, 1, 101, <<15, 15, 15, 15, 15, 15>>>>,
     <<0, 1, 80, <<15, 15, 15>>>>,
     <<0, 1, 80, <<15, 15, 0, 0, 0, 16>>>>}

SendTextArgs ==
    UNION {{[text |-> t, rainbow_mode |-> o[1], animation |-> an,
             save_slot |-> o[2], speed |-> o[3], color |-> o[4],
             text_size |-> ts] :
               t \in TextsOf(ts), an \in Animations, o \in OtherTextArgs} :
           ts \in TextSizes}

Calls(cmd, args) == {[cmd |-> cmd, arg |-> a] : a \in args}

\* COMMANDS[call.cmd](*call.arg)
Dispatch(c) ==
    CASE c.cmd = "clear" -> clear
      [] c.cmd = "get_device_info" -> get_device_info(c.arg.now)
      [] c.cmd = "set_brightness" -> set_brightness(c.arg)
      [] c.cmd = "set_clock_mode" ->
             set_clock_mode(c.arg.style, c.arg.date, c.arg.show_date,
                            c.arg.format_24, c.arg.now)
      [] c.cmd = "set_rhythm_mode" ->
             set_rhythm_mode(c.arg.style, c.arg.levels)
      [] c.cmd = "set_rhythm_mode_2" -> set_rhythm_mode_2(c.arg.style, c.arg.t)
      [] c.cmd = "set_time" -> set_time(c.arg.time, c.arg.now)
      [] c.cmd = "set_fun_mode" -> set_fun_mode(c.arg)
      [] c.cmd = "set_pixel" ->
             set_pixel(c.arg.x, c.arg.y, c.arg.color, c.arg.device_info)
      [] c.cmd = "delete" -> delete(c.arg)
      [] c.cmd = "send_text" -> send_text(c.arg)
      [] c.cmd = "set_orientation" -> set_orientation(c.arg)
      [] c.cmd = "send_image" -> send_image(c.arg)
      [] c.cmd = "set_power" -> set_power(c.arg)

CommandNames ==
    {"clear", "get_device_info", "set_brightness", "set_clock_mode",
     "set_rhythm_mode", "set_rhythm_mode_2", "set_time", "set_fun_mode",
     "set_pixel", "delete", "send_text", "set_orientation", "send_image",
     "set_power"}

\* A command function is about to be called with arguments of its sets.
CommandCalled ==
    \/ call \in Calls("clear", {0})
    \/ call \in Calls("get_device_info", {[now |-> n] : n \in Nows})
    \/ call \in Calls("set_brightness", Levels)
    \/ call \in Calls("set_clock_mode",
                      {[style |-> st, date |-> d, show_date |-> sd,
                        format_24 |-> f, now |-> n] :
                          st \in ClockStyles, d \in Dates, sd \in BOOLEAN,
                          f \in BOOLEAN, n \in Nows})
    \/ call \in Calls("set_rhythm_mode",
                      {[style |-> st, levels |-> ls] :
                          st \in RhythmStyles, ls \in LevelLists})
    \/ call \in Calls("set_rhythm_mode_2",
                      {[style |-> st, t |-> t] :
                          st \in RhythmStyles, t \in RhythmTimes})
    \/ call \in Calls("set_time",
                      {[time |-> t, now |-> n] : t \in Times, n \in Nows})
    \/ call \in Calls("set_fun_mode", BOOLEAN)
    \/ call \in Calls("set_pixel",
                      {[x |-> x, y |-> y, color |-> c, device_info |-> d] :
                          x \in Coordinates, y \in Coordinates, c \in Colors,
                          d \in Devices})
    \/ call \in Calls("delete", ScreenIndexes)
    \/ call \in Calls("send_text", SendTextArgs)
    \/ call \in Calls("set_orientation", Orientations)
    \/ call \in Calls("send_image", Images)
    \/ call \in Calls("set_power", BOOLEAN)

CommandInit ==
    /\ connected = FALSE
    /\ window_event = FALSE
    /\ all_event = FALSE
    /\ CommandCalled
    /\ plan = NoPlan
    /\ pc = "idle"
    /\ idx = 0
    /\ pos = 0
    /\ link = <<>>
    /\ log = <<>>
    /\ err = ""

\* plan = command_func(*args, **kwargs), the call itself.
BuildPlan ==
    /\ pc = "idle"
    /\ call.cmd \in CommandNames
    /\ LET built == Dispatch(call)
       IN  IF built.id = "raise"
           THEN /\ plan' = NoPlan
                /\ err' = "ValueError"
                /\ pc' = "rejected"
           ELSE /\ plan' = built
                /\ err' = ""
                /\ pc' = "built"
    /\ UNCHANGED <<connected, window_event, all_event, call, idx, pos, link,
                   log>>

CommandNext == BuildPlan

CommandSpec == CommandInit /\ [][CommandNext]_vars

\* ------------------------------------------------------ send_image, alone
\* GIF files of one window exactly, of one byte more, and of two windows
\* and ten bytes; byte i is i mod 251, so that no two windows hold the same
\* bytes.
LongGifs ==
    {ImageFile([i \in 1..n |-> i % 251], TRUE) :
        n \in {window_size, window_size + 1, 2 * window_size + 10}}

ImageInit ==
    /\ connected = FALSE
    /\ window_event = FALSE
    /\ all_event = FALSE
    /\ call \in Calls("send_image", Images \cup LongGifs)
    /\ plan = NoPlan
    /\ pc = "idle"
    /\ idx = 0
    /\ pos = 0
    /\ link = <<>>
    /\ log = <<>>
    /\ err = ""

ImageSpec == ImageInit /\ [][CommandNext]_vars

\* ------------------------------------------------ codec functions, alone
\* What a function applied on its own returned.
Returned(value) == [id |-> "value", value |-> value]

\* Byte counts around every power of 16 up to 16^5.
ByteCounts ==
    0..MaxLen
        \cup {15, 16, 17, 255, 256, 257, 4095, 4096, 4097, 65535, 65536, 65537,
              1048575, 1048576}

\* The widths of the length fields: 2, 4 and 8 digits.
FieldSizes == {2, 4, 8}

\* A hexadecimal string of byte_count bytes.
DataOf(byte_count) == [i \in 1..(2 * byte_count) |-> 0]

Words == 0..65535

GlyphHeights == (1..MaxLen) \cup {16}

\* Buffers for the three transforms: every buffer of at most MaxLen + 1 of
\* the bytes 00, 01, 80, aa, ff, and every byte value in a buffer of two.
WireBytes == {0, 1, 128, 170, 255}

WireBuffers ==
    UNION {[1..n -> WireBytes] : n \in 0..(MaxLen + 1)}
        \cup {<<b, c>> : b \in 0..255, c \in {0, 255}}

GlyphImages ==
    UNION {{GlyphImage(w, h, k, 0) : k \in {"off", "on", "even", "diagonal"}}
               \cup {GlyphImage(w, h, "column", c) : c \in 0..(w - 1)} :
           w \in 1..32, h \in GlyphHeights}

CodecCalled ==
    \/ call \in Calls("reverse_bits_16", Words)
    \/ call \in Calls("get_frame_size",
                      {[byte_count |-> n, size |-> s] :
                          n \in ByteCounts, s \in FieldSizes})
    \/ call \in Calls("charimg_to_hex_string",
                      GlyphImages \cup {GlyphImage(33, 1, "on", 0)})
    \/ call \in Calls("encode_text",
                      {<<Char(FALSE, GlyphImage(w, 16, k, 0))>> :
                          w \in 9..16, k \in {"off", "on", "even", "diagonal"}})
    \/ call \in Calls("send_text_header",
                      {[n |-> n, text_size |-> ts] :
                          n \in 1..100, ts \in 1..128})
    \/ call \in Calls("glyph_wire", WireBuffers)

CodecInit ==
    /\ connected = FALSE
    /\ window_event = FALSE
    /\ all_event = FALSE
    /\ CodecCalled
    /\ plan = NoPlan
    /\ pc = "idle"
    /\ idx = 0
    /\ pos = 0
    /\ link = <<>>
    /\ log = <<>>
    /\ err = ""

\* The call returns value.
Returns(value) ==
    /\ plan' = Returned(value)
    /\ pc' = "returned"
    /\ UNCHANGED <<connected, window_event, all_event, call, idx, pos, link,
                   log, err>>

\* The call raises.
Raises(exception) ==
    /\ err' = exception
    /\ pc' = "rejected"
    /\ UNCHANGED <<connected, window_event, all_event, call, plan, idx, pos,
                   link, log>>

ApplyReverseBits ==
    /\ pc = "idle"
    /\ call.cmd = "reverse_bits_16"
    /\ Returns(reverse_bits_16(call.arg))

ApplyGetFrameSize ==
    /\ pc = "idle"
    /\ call.cmd = "get_frame_size"
    /\ LET data == DataOf(call.arg.byte_count)
       IN  IF get_frame_size_raises(data, call.arg.size)
           THEN Raises("ValueError")
           ELSE Returns(get_frame_size(data, call.arg.size))

ApplyCharImg ==
    /\ pc = "idle"
    /\ call.cmd = "charimg_to_hex_string"
    /\ IF charimg_to_hex_string_raises(call.arg)
       THEN Raises("ValueError")
       ELSE Returns(charimg_to_hex_string(call.arg))

\* _encode_text on a text of one character of text size 16, in white.
ApplyEncodeText ==
    /\ pc = "idle"
    /\ call.cmd = "encode_text"
    /\ IF encode_text_raises(call.arg)
       THEN Raises("ValueError")
       ELSE Returns(encode_text(call.arg, 16, <<255, 255, 255>>))

ApplyTextHeader ==
    /\ pc = "idle"
    /\ call.cmd = "send_text_header"
    /\ IF send_text_header_raises(call.arg.n, call.arg.text_size)
       THEN Raises("OverflowError")
       ELSE Returns(send_text_header(call.arg.n, call.arg.text_size))

\* The three transforms _encode_text applies to char_bytes.
ApplyGlyphWire ==
    /\ pc = "idle"
    /\ call.cmd = "glyph_wire"
    /\ IF glyph_wire_raises(call.arg)
       THEN Raises("ValueError")
       ELSE Returns(glyph_wire(call.arg))

CodecNext ==
    \/ ApplyReverseBits
    \/ ApplyGetFrameSize
    \/ ApplyCharImg
    \/ ApplyEncodeText
    \/ ApplyTextHeader
    \/ ApplyGlyphWire

CodecSpec == CodecInit /\ [][CodecNext]_vars


\* ------------------------------------------------- the legacy GIF sender
\* commands.py send_animation: the transport bytes of a GIF given as the
\* path of a .gif file or as a hexadecimal string.  The path of any other
\* file is taken for a hexadecimal string, which it is not.
send_animation_hex(image) ==
    LET gif_hex == hex_of(image.content)
        checksum == CRC32_checksum(gif_hex)
        size == get_frame_size(gif_hex, 8)
    IN  <<0, 3, 0, 0, 0, 0>> \o size \o checksum \o <<0, 2, 0, 1>> \o gif_hex

send_animation_raises(image) ==
    \/ image.is_file /\ ~image.gif_suffix
    \/ get_frame_size_raises(hex_of(image.content), 8)
    \/ get_frame_size_raises(<<15, 15, 15, 15>> \o send_animation_hex(image),
                             4)

send_animation(image) ==
    LET inner == send_animation_hex(image)
    IN  fromhex(get_frame_size(<<15, 15, 15, 15>> \o inner, 4) \o inner)

\* The four bytes at data[at:at + 4] as a number, low byte first (the model
\* holds no count of 2^31 or more).
int_from_little_4(data, at) ==
    data[at + 1] + 256 * (data[at + 2]
                          + 256 * (data[at + 3] + 256 * data[at + 4]))

\* _parse_gif_transport: the fields of the transport, or none.
parse_gif_transport(data) ==
    LET offset == 2
        none == [found |-> FALSE, size_bytes |-> <<>>, crc_bytes |-> <<>>,
                 gif_bytes |-> <<>>]
    IN  IF Len(data) < 2 + 13 THEN none
        ELSE IF data[offset + 1] # 3 \/ data[offset + 2] # 0 THEN none
        ELSE IF data[offset + 12] # 2 \/ data[offset + 13] # 1 THEN none
        ELSE LET gif_len == int_from_little_4(data, offset + 3)
                 gif_start == offset + 13
             IN  IF gif_start + gif_len > Len(data) THEN none
                 ELSE [found |-> TRUE,
                       size_bytes |-> SubSeq(data, offset + 4, offset + 7),
                       crc_bytes |-> SubSeq(data, offset + 8, offset + 11),
                       gif_bytes |-> SubSeq(data, gif_start + 1,
                                            gif_start + gif_len)]

\* The header of every window built like that of the first one.
legacy_header_first_only(window_index, size_bytes, crc_bytes) ==
    <<3, 0, 0>> \o size_bytes \o crc_bytes \o <<2, 1>>

\* send_gif_windowed: header of window window_index.
legacy_header(window_index, size_bytes, crc_bytes) ==
    LET option == IF window_index = 0 THEN 0 ELSE 2
        serial == IF window_index = 0 THEN 1 ELSE 101
        cur_tail == <<2, serial>>
    IN  <<3, 0, option>> \o size_bytes \o crc_bytes \o cur_tail

\* send_gif_windowed: the messages of the windows from gif[at:] on.  The
\* length prefix is computed outside the try block, so its ValueError
\* leaves the sender.
RECURSIVE legacy_messages(_, _, _, _, _)
legacy_messages(gif, at, window_index, size_bytes, crc_bytes) ==
    IF ~(at < Len(gif))
    THEN <<>>
    ELSE LET window_end == Min(at + window_size, Len(gif))
             chunk_payload == SubSeq(gif, at + 1, window_end)
             frame == legacy_header(window_index, size_bytes, crc_bytes)
                          \o chunk_payload
             prefix == fromhex(get_frame_size(
                                   <<15, 15, 15, 15>> \o hex_of(frame), 4))
         IN  <<prefix \o frame>>
                 \o legacy_messages(gif, window_end, window_index + 1,
                                    size_bytes, crc_bytes)

RECURSIVE legacy_messages_raise(_, _, _, _, _)
legacy_messages_raise(gif, at, window_index, size_bytes, crc_bytes) ==
    /\ at < Len(gif)
    /\ LET window_end == Min(at + window_size, Len(gif))
           frame == legacy_header(window_index, size_bytes, crc_bytes)
                        \o SubSeq(gif, at + 1, window_end)
       IN  \/ get_frame_size_raises(<<15, 15, 15, 15>> \o hex_of(frame), 4)
           \/ legacy_messages_raise(gif, window_end, window_index + 1,
                                    size_bytes, crc_bytes)

\* send_chunked: the windows of the raw transport bytes, window_size each.
RECURSIVE send_chunked_windows(_, _)
send_chunked_windows(data, at) ==
    IF ~(at < Len(data))
    THEN <<>>
    ELSE LET window_end == Min(at + window_size, Len(data))
         IN  <<SubSeq(data, at + 1, window_end)>>
                 \o send_chunked_windows(data, window_end)

\* The inner loop of both senders: message[wpos:wend], chunk_size = 244.
RECURSIVE legacy_chunks(_, _)
legacy_chunks(message, wpos) ==
    IF ~(wpos < Len(message))
    THEN <<>>
    ELSE LET wend == Min(wpos + 244, Len(message))
         IN  <<SubSeq(message, wpos + 1, wend)>> \o legacy_chunks(message, wend)

\* The messages send_gif_windowed sends for the transport bytes data, every
\* window being acknowledged.
send_gif_windowed(data) ==
    LET parsed == parse_gif_transport(data)
    IN  IF ~parsed.found
        THEN send_chunked_windows(data, 0)
        ELSE legacy_messages(parsed.gif_bytes, 0, 0, parsed.size_bytes,
                             parsed.crc_bytes)

send_gif_windowed_raises(data) ==
    LET parsed == parse_gif_transport(data)
    IN  /\ parsed.found
        /\ legacy_messages_raise(parsed.gif_bytes, 0, 0, parsed.size_bytes,
                                 parsed.crc_bytes)

\* ipixelcli.py: data = send_animation(arg), then send_gif_windowed, run on
\* the image send_image was called with.  log gets one entry per window
\* (its message; "raw_window" when the transport was not parsed and went
\* to send_chunked), link the chunks written, in order.
LegacySend ==
    /\ pc \in {"built", "rejected"}
    /\ call.cmd = "send_image"
    /\ IF send_animation_raises(call.arg)
       THEN /\ pc' = "failed"
            /\ err' = "ValueError"
            /\ UNCHANGED <<link, log>>
       ELSE \E data \in {send_animation(call.arg)} :
               IF send_gif_windowed_raises(data)
               THEN /\ pc' = "failed"
                    /\ err' = "ValueError"
                    /\ UNCHANGED <<link, log>>
               ELSE \E messages \in {send_gif_windowed(data)} :
                       LET op == IF parse_gif_transport(data).found
                                 THEN "window" ELSE "raw_window"
                       IN  /\ pc' = "returned"
                           /\ err' = err
                           /\ log' = [k \in 1..Len(messages) |->
                                         Entry(op, k - 1, messages[k])]
                           /\ link' = Concat([k \in 1..Len(messages) |->
                                                 legacy_chunks(messages[k],
                                                               0)])
    /\ UNCHANGED <<connected, window_event, all_event, call, plan, idx, pos>>

LegacyNext ==
    \/ BuildPlan
    \/ LegacySend

LegacySpec == ImageInit /\ [][LegacyNext]_vars

\* ------------------------------------------- the client's command methods
\* The method AsyncClient gets for a command (client.py:116-118), called on
\* a connected client: plan = command_func(*args), then send_plan.  An
\* exception of the command function leaves the method before anything is
\* sent.  What set_time returns is not a SendPlan: send_plan raises
\* AttributeError on plan.id, before its loop.
Invoke(c) ==
    /\ call' = c
    /\ LET built == Dispatch(c)
       IN  IF built.id = "raise"
           THEN /\ pc' = "rejected"
                /\ err' = "ValueError"
                /\ plan' = NoPlan
                /\ idx' = 0 /\ pos' = 0 /\ link' = <<>> /\ log' = <<>>
                /\ UNCHANGED <<window_event, all_event>>
           ELSE IF built.id = "bytes"
           THEN /\ pc' = "failed"
                /\ err' = "AttributeError"
                /\ plan' = NoPlan
                /\ idx' = 0 /\ pos' = 0 /\ link' = <<>> /\ log' = <<>>
                /\ UNCHANGED <<window_event, all_event>>
           ELSE Enter(built)

InvokeAny(calls) == \E c \in calls : Invoke(c)

\* The commands with a fixed frame layout among those AsyncClient gets a
\* method for.
ClientCommands ==
    {"clear", "get_device_info", "set_brightness", "set_clock_mode",
     "set_time", "set_fun_mode", "set_pixel", "delete", "set_orientation",
     "set_power"}

\* The calls of the method of command cmd.
ClientCalls(cmd) ==
    CASE cmd = "clear" -> Calls("clear", {0})
      [] cmd = "get_device_info" ->
            Calls("get_device_info", {[now |-> n] : n \in Nows})
      [] cmd = "set_brightness" -> Calls("set_brightness", Levels)
      [] cmd = "set_clock_mode" ->
            Calls("set_clock_mode",
                  {[style |-> st, date |-> d, show_date |-> sd,
                    format_24 |-> f, now |-> n] :
                      st \in ClockStyles, d \in Dates,
                      sd \in BOOLEAN, f \in BOOLEAN, n \in Nows})
      [] cmd = "set_time" ->
            Calls("set_time", {[time |-> t, now |-> n] :
                                  t \in Times, n \in Nows})
      [] cmd = "set_fun_mode" -> Calls("set_fun_mode", BOOLEAN)
      [] cmd = "set_pixel" ->
            Calls("set_pixel",
                  {[x |-> x, y |-> y, color |-> c, device_info |-> d] :
                      x \in Coordinates, y \in Coordinates,
                      c \in Colors, d \in Devices})
      [] cmd = "delete" -> Calls("delete", ScreenIndexes)
      [] cmd = "set_orientation" -> Calls("set_orientation", Orientations)
      [] cmd = "set_power" -> Calls("set_power", BOOLEAN)

\* The methods of the commands with a fixed frame layout.
CommandMethod ==
    /\ pc = "idle"
    /\ connected
    /\ \E cmd \in ClientCommands : InvokeAny(ClientCalls(cmd))
    /\ UNCHANGED connected

ClientNext ==
    \/ Connect
    \/ MethodNotConnected
    \/ CommandMethod
    \/ SendPlanCall
    \/ WriteReturn
    \/ WriteFail
    \/ WindowAcked
    \/ WindowTimeout
    \/ FinalAcked
    \/ FinalTimeout
    \/ Cancel
    \/ Return
    \/ Notification

ClientSpec == Init /\ [][ClientNext]_vars

\* --------------------------------------- the send with its notifications
\* The last chunk of the current window is on the link: its write is
\* awaited, or the window wait is.
LastChunkOut ==
    \/ pc = "wait_window"
    \/ /\ pc = "writing"
       /\ LET total == Len(plan.windows[idx + 1].data)
          IN  chunk_end(pos, plan.chunk_size, total) = total

\* Notify with the delivery recorded in log, for a frame that sets the
\* window signal during a send.  Recorded are the delivery that takes the
\* signal from unset to set, and a delivery after the last chunk of the
\* window (one between two steps of the coroutine; more of them change
\* nothing).
ObservedNotify(frame) ==
    /\ connected
    /\ LET r == handler(frame, window_event, all_event)
           acks == handler(frame, FALSE, FALSE)[1]
           noted == /\ pc \in Suspended
                    /\ acks
                    /\ \/ ~window_event
                       \/ LastChunkOut /\ log[Len(log)].op # "notify"
       IN /\ window_event' = r[1]
          /\ all_event' = r[2]
          /\ log' = IF noted THEN Append(log, Entry("notify", idx, <<>>))
                    ELSE log
    /\ UNCHANGED <<connected, call, plan, pc, idx, pos, link, err>>

ObservedNotification == \E frame \in LinkFrames : ObservedNotify(frame)

ObservedNext ==
    \/ Connect
    \/ MethodNotConnected
    \/ Method
    \/ SendPlanCall
    \/ WriteReturn
    \/ WriteFail
    \/ WindowAcked
    \/ WindowTimeout
    \/ FinalAcked
    \/ FinalTimeout
    \/ Cancel
    \/ Return
    \/ ObservedNotification

ObservedSpec == Init /\ [][ObservedNext]_vars

\* Notify with the delivery that takes the final signal from unset to set
\* during a send recorded in log.
FinalNotify(frame) ==
    /\ connected
    /\ LET r == handler(frame, window_event, all_event)
           ends == handler(frame, FALSE, FALSE)[2]
           final == pc \in Suspended /\ ends /\ ~all_event
       IN /\ window_event' = r[1]
          /\ all_event' = r[2]
          /\ log' = IF final
                    THEN Append(log, Entry("notify_final", idx, <<>>))
                    ELSE log
    /\ UNCHANGED <<connected, call, plan, pc, idx, pos, link, err>>

FinalNotification == \E frame \in LinkFrames : FinalNotify(frame)

FinalNext ==
    \/ Connect
    \/ MethodNotConnected
    \/ Method
    \/ SendPlanCall
    \/ WriteReturn
    \/ WriteFail
    \/ WindowAcked
    \/ WindowTimeout
    \/ FinalAcked
    \/ FinalTimeout
    \/ Cancel
    \/ Return
    \/ FinalNotification

FinalSpec == Init /\ [][FinalNext]_vars

\* ------------------------------------------ two command methods on one client
\* Two tasks call command methods of one connected AsyncClient (for example
\* asyncio.gather(client.set_brightness(..), client.send_text(..))).  method
\* takes no lock: the coroutines share the link and the AckManager and
\* interleave at every await.  In this specification the variables of an
\* invocation (call, plan, pc, idx, pos, log, err) hold one value per task;
\* link holds the chunks of the invocations not yet returned, in the order
\* they were written, each with the task that wrote it.
\*
\* asyncio.Event.wait() suspends on a future that Event.set() resolves: a
\* waiter woken by set() returns even when the event is cleared before it
\* runs again (pc "woken_window", "woken_final").
Tasks == {1, 2}

Other(t) == 3 - t

\* The plans the command functions build: set_brightness (one chunk), and
\* plans of several chunks like those of send_text and send_image.
TaskPlans ==
    {p \in PlanSet :
        /\ Len(p.windows) \in {1, MaxWindows}
        /\ \A i \in 1..Len(p.windows) :
              /\ Len(p.windows[i].data) = MaxLen
              /\ p.windows[i].requires_ack
        /\ p.chunk_size = MaxChunk
        /\ p.ack_policy.ack_per_window}

TaskLevels == {50, MaxBrightness + 1}

Written(t, chunks) ==
    [i \in 1..Len(chunks) |-> [task |-> t, chunk |-> chunks[i]]]

TaskHere(t) ==
    Frame(pc[t], idx[t], pos[t], window_event, all_event, <<>>, log[t])

TaskBecome(t, st) ==
    /\ pc' = [pc EXCEPT ![t] = st.pc]
    /\ idx' = [idx EXCEPT ![t] = st.idx]
    /\ pos' = [pos EXCEPT ![t] = st.pos]
    /\ window_event' = st.window_event
    /\ all_event' = st.all_event
    /\ link' = link \o Written(t, st.link)
    /\ log' = [log EXCEPT ![t] = st.log]

ConcurrentInit ==
    /\ connected = FALSE
    /\ window_event = FALSE
    /\ all_event = FALSE
    /\ call = [t \in Tasks |-> NoCall]
    /\ plan = [t \in Tasks |-> NoPlan]
    /\ pc = [t \in Tasks |-> "idle"]
    /\ idx = [t \in Tasks |-> 0]
    /\ pos = [t \in Tasks |-> 0]
    /\ link = <<>>
    /\ log = [t \in Tasks |-> <<>>]
    /\ err = [t \in Tasks |-> ""]

\* AsyncClient.connect, awaited before the tasks are started.
ConcurrentConnect ==
    /\ ~connected
    /\ connected' = TRUE
    /\ window_event' = FALSE
    /\ all_event' = FALSE
    /\ UNCHANGED <<call, plan, pc, idx, pos, link, log, err>>

\* send_plan entered by task t with plan p: runs to its first await.
TaskEnter(t, p) ==
    /\ plan' = [plan EXCEPT ![t] = p]
    /\ err' = [err EXCEPT ![t] = ""]
    /\ TaskBecome(t, for_windows(p, Frame("idle", 0, 0, window_event,
                                          all_event, <<>>, <<>>)))

\* Task t calls client.set_brightness(level).
TaskMethod ==
    \E t \in Tasks :
        /\ pc[t] = "idle"
        /\ connected
        /\ \E level \in TaskLevels :
              LET built == set_brightness(level)
              IN /\ call' = [call EXCEPT
                                ![t] = [cmd |-> "set_brightness", arg |-> level]]
                 /\ IF built = Raise
                    THEN /\ pc' = [pc EXCEPT ![t] = "rejected"]
                         /\ err' = [err EXCEPT ![t] = "ValueError"]
                         /\ UNCHANGED <<plan, idx, pos, link, log,
                                        window_event, all_event>>
                    ELSE TaskEnter(t, built)
        /\ UNCHANGED connected

\* Task t calls a command method whose command function built plan p.
TaskSendPlan ==
    \E t \in Tasks :
        /\ pc[t] = "idle"
        /\ connected
        /\ \E p \in TaskPlans :
              /\ call' = [call EXCEPT ![t] = [cmd |-> "send_plan", arg |-> 0]]
              /\ TaskEnter(t, p)
        /\ UNCHANGED connected

TaskWriteReturn ==
    \E t \in Tasks :
        /\ pc[t] = "writing"
        /\ LET total == Len(plan[t].windows[idx[t] + 1].data)
               end == chunk_end(pos[t], plan[t].chunk_size, total)
           IN TaskBecome(t, for_chunks(plan[t],
                  [TaskHere(t) EXCEPT
                      !.pos = end,
                      !.log = Append(@, Entry("write_ok", idx[t], <<>>))]))
        /\ UNCHANGED <<connected, call, plan, err>>

TaskWriteFail ==
    \E t \in Tasks :
        /\ pc[t] = "writing"
        /\ pc' = [pc EXCEPT ![t] = "failed"]
        /\ err' = [err EXCEPT ![t] = "LinkWriteFailure"]
        /\ log' = [log EXCEPT
                      ![t] = Append(@, Entry("write_failed", idx[t], <<>>))]
        /\ UNCHANGED <<connected, window_event, all_event, call, plan, idx,
                       pos, link>>

\* The window wait of task t returns: it was woken by set(), or it found the
\* event set when it started to wait.
TaskWindowAcked ==
    \E t \in Tasks :
        /\ \/ pc[t] = "woken_window"
           \/ pc[t] = "wait_window" /\ window_event
        /\ TaskBecome(t, for_windows(plan[t],
              [TaskHere(t) EXCEPT
                  !.idx = @ + 1,
                  !.log = Append(@, Entry("window_acked", idx[t], <<>>))]))
        /\ UNCHANGED <<connected, call, plan, err>>

TaskWindowTimeout ==
    \E t \in Tasks :
        /\ pc[t] = "wait_window"
        /\ ~window_event
        /\ pc' = [pc EXCEPT ![t] = "failed"]
        /\ err' = [err EXCEPT ![t] = "cur12k_no_answer"]
        /\ log' = [log EXCEPT
                      ![t] = Append(@, Entry("window_timeout", idx[t], <<>>))]
        /\ UNCHANGED <<connected, window_event, all_event, call, plan, idx,
                       pos, link>>

TaskFinalAcked ==
    \E t \in Tasks :
        /\ \/ pc[t] = "woken_final"
           \/ pc[t] = "wait_final" /\ all_event
        /\ pc' = [pc EXCEPT ![t] = "done"]
        /\ log' = [log EXCEPT
                      ![t] = Append(@, Entry("final_acked", idx[t], <<>>))]
        /\ UNCHANGED <<connected, window_event, all_event, call, plan, idx,
                       pos, link, err>>

TaskFinalTimeout ==
    \E t \in Tasks :
        /\ pc[t] = "wait_final"
        /\ ~all_event
        /\ pc' = [pc EXCEPT ![t] = "done"]
        /\ log' = [log EXCEPT
                      ![t] = Append(@, Entry("final_timeout", idx[t], <<>>))]
        /\ UNCHANGED <<connected, window_event, all_event, call, plan, idx,
                       pos, link, err>>

\* The method of task t hands its outcome to its caller.
TaskReturn ==
    \E t \in Tasks :
        /\ pc[t] \in Terminal
        /\ pc' = [pc EXCEPT ![t] = "idle"]
        /\ call' = [call EXCEPT ![t] = NoCall]
        /\ plan' = [plan EXCEPT ![t] = NoPlan]
        /\ idx' = [idx EXCEPT ![t] = 0]
        /\ pos' = [pos EXCEPT ![t] = 0]
        /\ link' = SelectSeq(link, LAMBDA w : w.task # t)
        /\ log' = [log EXCEPT ![t] = <<>>]
        /\ err' = [err EXCEPT ![t] = ""]
        /\ UNCHANGED <<connected, window_event, all_event>>

\* The link delivers a frame to the one handler: set() wakes every waiter.
TaskNotification ==
    \E frame \in LinkFrames :
        /\ connected
        /\ LET r == handler(frame, window_event, all_event)
               sets_window == handler(frame, FALSE, FALSE)[1]
               sets_all == handler(frame, FALSE, FALSE)[2]
           IN /\ window_event' = r[1]
              /\ all_event' = r[2]
              /\ pc' = [t \in Tasks |->
                           IF pc[t] = "wait_window" /\ sets_window
                           THEN "woken_window"
                           ELSE IF pc[t] = "wait_final" /\ sets_all
                                THEN "woken_final"
                                ELSE pc[t]]
        /\ UNCHANGED <<connected, call, plan, idx, pos, link, log, err>>

ConcurrentNext ==
    \/ ConcurrentConnect
    \/ TaskMethod
    \/ TaskSendPlan
    \/ TaskWriteReturn
    \/ TaskWriteFail
    \/ TaskWindowAcked
    \/ TaskWindowTimeout
    \/ TaskFinalAcked
    \/ TaskFinalTimeout
    \/ TaskReturn
    \/ TaskNotification

ConcurrentSpec == ConcurrentInit /\ [][ConcurrentNext]_vars

\* ------------------------------------------------------- reading the log
OpPos(op) == {i \in 1..Len(log) : log[i].op = op}

WritePos == OpPos("write")

WritePosOf(k) == {i \in WritePos : log[i].win = k}

IsWrite(e) == e.op = "write"

\* The <<window, chunk>> pairs written so far, in write order.
WrittenPairs ==
    LET w == SelectSeq(log, IsWrite)
    IN [i \in 1..Len(w) |-> <<w[i].win, w[i].chunk>>]

\* The chunks of buffer data for chunk size c, by index arithmetic.
ExpectedChunks(data, c) ==
    [j \in 1..CeilDiv(Len(data), c) |->
        SubSeq(data, (j - 1) * c + 1, Min(j * c, Len(data)))]

\* The <<window, chunk>> pairs of plan p from its k-th window on.
RECURSIVE ExpectedWrites(_, _)
ExpectedWrites(p, k) ==
    IF k > Len(p.windows) THEN <<>>
    ELSE LET cs == ExpectedChunks(p.windows[k].data, p.chunk_size)
         IN [j \in 1..Len(cs) |-> <<k - 1, cs[j]>>] \o ExpectedWrites(p, k + 1)

\* Window k of the plan is awaited: both flags are true.
Awaited(k) ==
    plan.ack_policy.ack_per_window /\ plan.windows[k + 1].requires_ack

WaitStarts == {"wait_window", "wait_final"}
WaitEnds == {"window_acked", "window_timeout", "final_acked",
             "final_timeout", "cancel"}

\* The step appends op as the next operation of the running invocation.
Performs(op) ==
    /\ Len(log') > Len(log)
    /\ log'[Len(log) + 1].op = op

\* ------------------------------------------------------------------ C1
\* The order of the operations in the log of the running send.
C1_InOrder ==
    /\ IsPrefix(WrittenPairs, ExpectedWrites(plan, 1))
    /\ \A i \in WritePos : \A j \in WritePos :
          i < j => \E m \in (i + 1)..(j - 1) :
                      log[m].op = "write_ok" /\ log[m].win = log[i].win
    /\ \A j \in WritePos : \A k \in 0..(log[j].win - 1) :
          Awaited(k) =>
             \E r \in OpPos("reset") : \E a \in OpPos("window_acked") :
                /\ log[r].win = k /\ log[a].win = k
                /\ r < a /\ a < j
                /\ \A w \in WritePosOf(k) : r < w /\ w < a

\* C1: the chunks are written in plan order (window by window, chunk by
\* chunk), a chunk is written only after the write before it has returned,
\* and a chunk of a window is written only after every earlier window that
\* is awaited (ack_per_window and requires_ack) has been reset and then seen
\* acknowledged; the wait returns only when the window signal is set.
C1_Sequential ==
    /\ []C1_InOrder
    /\ [][Performs("window_acked") => window_event]_vars

\* A chunk of the second window has been written after an awaited first
\* window of at least two chunks.
C1_Witness ==
    /\ Len(plan.windows) = 2
    /\ Awaited(0)
    /\ Cardinality(WritePosOf(0)) >= 2
    /\ WritePosOf(1) # {}

\* ------------------------------------------------------------------ C2
\* A window timeout is the last operation of a send.
C2_TimeoutEndsSend ==
    \A t \in OpPos("window_timeout") :
       /\ t = Len(log)
       /\ pc = "failed"
       /\ err = "cur12k_no_answer"
       /\ \A j \in WritePos : log[j].win <= log[t].win
       /\ OpPos("wait_final") = {}

\* C2: when the wait on an awaited window ends while the window signal is
\* unset, send_plan fails with the ack-timeout error (unless the caller
\* cancelled it); after a window timeout nothing more is done: no chunk of a
\* later window is written and the final wait is never started.
C2_AckTimeoutFatal ==
    /\ []C2_TimeoutEndsSend
    /\ [][(pc = "wait_window" /\ ~window_event /\ pc' # pc)
            => \/ pc' = "cancelled"
               \/ /\ pc' = "failed"
                  /\ err' = "cur12k_no_answer"
                  /\ Performs("window_timeout")
                  /\ link' = link]_vars

\* The first of two windows timed out.
C2_Witness ==
    /\ pc = "failed"
    /\ err = "cur12k_no_answer"
    /\ Len(plan.windows) = 2
    /\ idx = 0
    /\ plan.ack_policy.ack_final

\* ------------------------------------------------------------------ C3
\* A final timeout is the last operation of a send that is done.
C3_TimeoutIsSuccess ==
    \A t \in OpPos("final_timeout") :
       /\ t = Len(log)
       /\ pc = "done"
       /\ err = ""

\* C3: when the final wait ends while the final signal is unset, send_plan
\* completes without an error (unless the caller cancelled it): a send whose
\* final wait timed out is done and has raised nothing.
C3_FinalTimeoutSwallowed ==
    /\ []C3_TimeoutIsSuccess
    /\ [][(pc = "wait_final" /\ ~all_event /\ pc' # pc)
            => \/ pc' = "cancelled"
               \/ pc' = "done" /\ err' = ""]_vars

\* A plan of two acknowledged windows whose final wait timed out.
C3_Witness ==
    /\ pc = "done"
    /\ OpPos("final_timeout") # {}
    /\ Cardinality(OpPos("window_acked")) = 2

\* ------------------------------------------------------------------ C4
\* What the frame is documented to do to the two signals.
Acks(f) == Len(f) >= 5 /\ f[1] = 5 /\ f[5] \in {0, 1, 3}
Completes(f) == Len(f) >= 5 /\ f[1] = 5 /\ f[5] = 3

\* C4: a notification frame of length >= 5 with byte 0 = 0x05 sets the
\* window signal for status 0, 1 or 3 and the final signal for status 3;
\* every other frame, and every other status, leaves both signals as they
\* were.
C4_Handler ==
    [][(pc = "idle" /\ pc' = "handled")
         => /\ window_event' = (window_event \/ Acks(call.arg))
            /\ all_event' = (all_event \/ Completes(call.arg))]_vars

\* The frame 05 00 00 00 03 has been handled and both signals are set.
C4_Witness ==
    /\ pc = "handled"
    /\ call.arg = <<5, 0, 0, 0, 3>>
    /\ window_event
    /\ all_event

\* ------------------------------------------------------------------ C5
\* C5: a wait is the last thing the coroutine does until it ends (so no
\* reset and no second wait while one is outstanding); every window is
\* reset exactly once, before its first chunk is written; a wait for a
\* window starts after the last write of that window has returned, and the
\* final wait after every write has returned.
C5_ResetOutsideWaits ==
    /\ \A i \in 1..Len(log) :
          log[i].op \in WaitStarts =>
             \/ i = Len(log) /\ pc \in WaitStarts
             \/ i + 1 = Len(log) /\ log[i + 1].op = "cancel"
             \/ /\ i < Len(log)
                /\ log[i + 1].op \in WaitEnds \ {"cancel"}
                /\ log[i + 1].win = log[i].win
    /\ \A k \in 0..(Len(plan.windows) - 1) :
          LET rs == {r \in OpPos("reset") : log[r].win = k}
          IN /\ Cardinality(rs) <= 1
             /\ \A w \in WritePosOf(k) : \E r \in rs : r < w
             /\ \A s \in OpPos("wait_window") :
                   log[s].win = k =>
                      /\ \E r \in rs : r < s
                      /\ \A w \in WritePosOf(k) :
                            \E m \in (w + 1)..(s - 1) : log[m].op = "write_ok"
    /\ \A s \in OpPos("wait_final") :
          \A w \in WritePos : \E m \in (w + 1)..(s - 1) : log[m].op = "write_ok"

\* The wait for the second window is outstanding after both windows were
\* written.
C5_Witness ==
    /\ pc = "wait_window"
    /\ idx = 1
    /\ WritePosOf(0) # {}
    /\ WritePosOf(1) # {}
    /\ Cardinality(OpPos("reset")) = 2

\* ------------------------------------------------------------------ C6
\* C6: the step that cancels a send writes nothing to the link and leaves
\* both signals unset, and nothing is written while the send stays
\* cancelled.
C6_CancelLeavesReset ==
    [][pc' = "cancelled"
         => /\ link' = link
            /\ pc # "cancelled" => (~window_event' /\ ~all_event')]_vars

\* ------------------------------------------------------------------ C7
\* Window k has been written in full: the coroutine has moved past its
\* chunk loop.
WindowWritten(k) ==
    \/ pc = "done"
    \/ \E i \in 1..Len(log) :
          \/ log[i].win > k
          \/ log[i].win = k /\ log[i].op = "wait_window"

\* The chunks written for window k, in write order.
ChunksOf(k) ==
    LET OfK(e) == e.op = "write" /\ e.win = k
        w == SelectSeq(log, OfK)
    IN [i \in 1..Len(w) |-> w[i].chunk]

\* C7: for a window of L bytes written in full with chunk size c, the
\* chunks written are ceil(L/c) many, each of 1..c bytes, all but the last
\* of exactly c bytes, and their concatenation in write order is the
\* window's data.
C7_Chunking ==
    \A k \in 0..(Len(plan.windows) - 1) :
       WindowWritten(k) =>
          LET cs == ChunksOf(k)
              data == plan.windows[k + 1].data
              c == plan.chunk_size
          IN /\ Len(cs) = CeilDiv(Len(data), c)
             /\ \A j \in 1..Len(cs) : Len(cs[j]) >= 1 /\ Len(cs[j]) <= c
             /\ \A j \in 1..(Len(cs) - 1) : Len(cs[j]) = c
             /\ Concat(cs) = data

\* A window of three bytes has been written in chunks of two, and an empty
\* window in no chunk at all.
C7_Witness ==
    /\ pc = "done"
    /\ plan.chunk_size = 2
    /\ Len(plan.windows) = 2
    /\ Len(plan.windows[1].data) = 3
    /\ Len(plan.windows[2].data) = 0

\* ------------------------------------------------------------------ C8
\* The argument of the call is outside what its command accepts.
Rejects(c) ==
    c.cmd = "set_brightness" /\ (c.arg < 0 \/ c.arg > 100)

\* All the bytes of plan p, window after window.
AllData(p) == Concat([k \in 1..Len(p.windows) |-> p.windows[k].data])

\* What a call has built and written.
C8_BuiltBeforeWrite ==
    /\ Rejects(call) => pc = "rejected"
    /\ pc = "rejected" => link = <<>> /\ log = <<>>
    /\ (call.cmd = "set_brightness" /\ pc \notin {"idle", "rejected"})
          => plan.windows = <<Window(<<5, 0, 4, 128, call.arg>>, TRUE)>>
    /\ IsPrefix(Concat(link), AllData(plan))

C9_Terminates == (pc \in Suspended) ~> (pc \in Terminal)

\* The second window of a plan has timed out.
C9_Witness ==
    /\ pc = "failed"
    /\ err = "cur12k_no_answer"
    /\ idx = 1
    /\ OpPos("window_acked") # {}

\* ----------------------------------------------------------------- C10
\* C10: both signals start unset, and a step that takes a signal from set
\* to unset performs a reset().
C10_SetOnly ==
    /\ ~window_event /\ ~all_event
    /\ [][((window_event /\ ~window_event') \/ (all_event /\ ~all_event'))
            => \E i \in (Len(log) + 1)..Len(log') : log'[i].op = "reset"]_vars

\* The window signal is still set after the wait on it returned and the
\* final wait timed out.
C10_Witness ==
    /\ pc = "done"
    /\ window_event
    /\ ~all_event
    /\ OpPos("window_acked") # {}
    /\ OpPos("final_timeout") # {}

\* ----------------------------------------------------------------- C11
\* What a command function returned is a SendPlan (not a bytes object).
IsSendPlan(r) == r.id \notin {"raise", "bytes"}

\* C11: every SendPlan a command function returns has a non-empty windows
\* sequence and a chunk_size above 0, send_image of a GIF file of zero bytes
\* included.
C11_PlanInvariant ==
    (pc = "built" /\ IsSendPlan(plan))
        => (Len(plan.windows) >= 1 /\ plan.chunk_size > 0)

\* ----------------------------------------------------------------- C12
TableCommands ==
    {"clear", "set_brightness", "set_fun_mode", "set_orientation",
     "set_power", "set_pixel", "delete", "set_clock_mode", "set_rhythm_mode",
     "set_rhythm_mode_2", "set_time"}

\* The arguments of the call are within the ranges of the opcode table.
InRange(c) ==
    CASE c.cmd = "set_brightness" -> c.arg \in 0..MaxBrightness
      [] c.cmd = "set_orientation" -> c.arg \in 0..3
      [] c.cmd = "set_pixel" ->
             /\ Len(c.arg.color) = 6
             /\ \A i \in 1..6 : c.arg.color[i] \in 0..15
             /\ c.arg.x \in 0..255 /\ c.arg.y \in 0..255
             /\ c.arg.device_info.present
                    => /\ c.arg.x < c.arg.device_info.width
                       /\ c.arg.y < c.arg.device_info.height
      [] c.cmd = "delete" -> c.arg \in 0..255
      [] c.cmd = "set_clock_mode" ->
             /\ c.arg.style \in 0..8
             /\ c.arg.date # <<>>
                    => /\ Len(c.arg.date) = 3
                       /\ c.arg.date[3] \in 1..99
                       /\ c.arg.date[2] \in 1..12
                       /\ c.arg.date[1] \in
                              1..DaysInMonth(c.arg.date[3], c.arg.date[2])
      [] c.cmd = "set_rhythm_mode" ->
             /\ c.arg.style \in 0..4
             /\ \A i \in 1..11 : c.arg.levels[i] \in 0..15
      [] c.cmd = "set_rhythm_mode_2" ->
             c.arg.style \in 0..1 /\ c.arg.t \in 0..7
      [] c.cmd = "set_time" ->
             c.arg.time # <<>>
                 => /\ c.arg.time[1] \in 0..23
                    /\ c.arg.time[2] \in 0..59
                    /\ c.arg.time[3] \in 0..59
      [] OTHER -> TRUE

Flag(b) == IF b THEN 1 ELSE 0

\* The frame of the opcode table: the header bytes, then the argument bytes
\* in table order.
TableFrame(c) ==
    CASE c.cmd = "clear" -> <<4, 0, 3, 128>>
      [] c.cmd = "set_brightness" -> <<5, 0, 4, 128, c.arg>>
      [] c.cmd = "set_fun_mode" -> <<5, 0, 4, 1, Flag(c.arg)>>
      [] c.cmd = "set_orientation" -> <<5, 0, 6, 128, c.arg>>
      [] c.cmd = "set_power" -> <<5, 0, 7, 1, Flag(c.arg)>>
      [] c.cmd = "set_pixel" ->
             <<10, 0, 5, 1, 0,
               16 * c.arg.color[1] + c.arg.color[2],
               16 * c.arg.color[3] + c.arg.color[4],
               16 * c.arg.color[5] + c.arg.color[6],
               c.arg.x, c.arg.y>>
      [] c.cmd = "delete" -> <<7, 0, 2, 1, 1, 0, c.arg>>
      [] c.cmd = "set_clock_mode" ->
             LET d == IF c.arg.date # <<>>
                      THEN c.arg.date
                      ELSE <<c.arg.now.day, c.arg.now.month, c.arg.now.year>>
             IN  <<11, 0, 6, 1, c.arg.style, Flag(c.arg.format_24),
                   Flag(c.arg.show_date), d[3] % 100, d[2], d[1],
                   weekday(d[3], d[2], d[1]) + 1>>
      [] c.cmd = "set_rhythm_mode" ->
             <<16, 0, 1, 2, c.arg.style>> \o c.arg.levels
      [] c.cmd = "set_rhythm_mode_2" -> <<6, 0, 0, 2, c.arg.t, c.arg.style>>
      [] c.cmd = "set_time" ->
             LET t == IF c.arg.time # <<>>
                      THEN c.arg.time
                      ELSE <<c.arg.now.hour, c.arg.now.minute,
                             c.arg.now.second>>
             IN  <<8, 0, 1, 128, t[1], t[2], t[3], 0>>

\* C12: every command of the fixed opcode table, called with in-range
\* arguments, returns a SendPlan with exactly one window, whose bytes are
\* the frame of the table.
C12_TableFrames ==
    (pc \in {"built", "rejected"} /\ call.cmd \in TableCommands
        /\ InRange(call))
        => /\ pc = "built"
           /\ IsSendPlan(plan)
           /\ Len(plan.windows) = 1
           /\ plan.windows[1].data = TableFrame(call)

\* ----------------------------------------------------------------- C13
\* Every argument of send_text but the animation is valid.
OtherwiseValid(a) ==
    /\ a.rainbow_mode \in 0..9
    /\ a.save_slot \in 1..10
    /\ a.speed \in 0..100
    /\ Len(a.text) \in 1..100
    /\ a.text_size \in 1..128
    /\ ~color_raises(a.color)

\* C13: send_text with otherwise valid arguments returns a plan for every
\* animation in {0, 1, 2, 5, 6, 7}, and raises, returning no plan, for the
\* animations 3 and 4 and for every animation outside 0..7.
C13_Animations ==
    (pc \in {"built", "rejected"} /\ call.cmd = "send_text"
        /\ OtherwiseValid(call.arg))
        => IF call.arg.animation \in {0, 1, 2, 5, 6, 7}
           THEN pc = "built" /\ IsSendPlan(plan) /\ plan.id = "send_text"
           ELSE pc = "rejected" /\ plan = NoPlan /\ err = "ValueError"

\* send_text of one character at text size 16 into save slot 1 was rejected
\* for its animation 3.
C13_Witness ==
    /\ pc = "rejected"
    /\ call.cmd = "send_text"
    /\ OtherwiseValid(call.arg)
    /\ Len(call.arg.text) = 1
    /\ call.arg.text_size = 16
    /\ call.arg.save_slot = 1
    /\ call.arg.animation = 3

\* ----------------------------------------------------------------- C14
\* C14: for every text length N in 1..100 and text size H in 1..128 the
\* header is built, len1 = 0x1D + N * (6 + 2 * H) and len2 = 0x0E + N * (6 +
\* 2 * H) are below 2^16, and the header holds len1 in bytes 0-1 and len2 in
\* bytes 5-6, low byte first.
C14_HeaderLengths ==
    (pc \in {"returned", "rejected"} /\ call.cmd = "send_text_header")
        => LET len1 == 29 + call.arg.n * (6 + 2 * call.arg.text_size)
               len2 == 14 + call.arg.n * (6 + 2 * call.arg.text_size)
           IN  /\ pc = "returned"
               /\ len1 < 65536 /\ len2 < 65536
               /\ IsBytes(plan.value)
               /\ plan.value[1] + 256 * plan.value[2] = len1
               /\ plan.value[6] + 256 * plan.value[7] = len2

\* The header of the longest text at the largest size: len1 = 26229.
C14_Witness ==
    /\ pc = "returned"
    /\ call.cmd = "send_text_header"
    /\ call.arg.n = 100
    /\ call.arg.text_size = 128
    /\ plan.value[1] + 256 * plan.value[2] = 26229
    /\ plan.value[6] + 256 * plan.value[7] = 26214

\* ----------------------------------------------------------------- C15
\* send_image was called with a GIF of at least one byte.
GifCall ==
    /\ pc \in {"built", "rejected"}
    /\ call.cmd = "send_image"
    /\ load_is_gif(call.arg)
    /\ Len(call.arg.content) > 0

\* The bytes of window k after its 2-byte prefix and 13-byte header.
PayloadOf(k) == SubSeq(plan.windows[k].data, 16, Len(plan.windows[k].data))

\* C15: a GIF of L > 0 bytes gives ceil(L / 12288) windows, each requiring
\* an ack, whose payloads are the consecutive slices of the GIF of 12288
\* bytes (the last one of what is left) and together make up the GIF.
C15_GifWindows ==
    GifCall
        => LET gif == call.arg.content
               count == Len(plan.windows)
           IN  /\ pc = "built"
               /\ count = CeilDiv(Len(gif), window_size)
               /\ \A k \in 1..count :
                     /\ plan.windows[k].requires_ack
                     /\ Len(PayloadOf(k)) <= window_size
                     /\ k < count => Len(PayloadOf(k)) = window_size
                     /\ PayloadOf(k)
                            = SubSeq(gif, (k - 1) * window_size + 1,
                                     Min(k * window_size, Len(gif)))
               /\ Concat([k \in 1..count |-> PayloadOf(k)]) = gif

\* A GIF of 12288 * 2 + 10 bytes was cut into 3 windows, the last of 10
\* bytes.
C15_Witness ==
    /\ pc = "built"
    /\ call.cmd = "send_image"
    /\ Len(call.arg.content) = 2 * window_size + 10
    /\ Len(plan.windows) = 3
    /\ Len(PayloadOf(3)) = 10

\* ----------------------------------------------------------------- C16
\* The four bytes of n, low byte first.
LittleEndian4(n) ==
    <<n % 256, (n \div 256) % 256, (n \div 65536) % 256, n \div 16777216>>

\* C16: window k of a GIF plan is a 2-byte little-endian prefix holding the
\* length of the whole window, then 03 00 option, the length of the whole
\* GIF in 4 bytes and its CRC-32 in 4 bytes, both low byte first, the tail,
\* and the payload; option and tail are 00 and 02 01 in the first window,
\* 02 and 02 65 in the others.
C16_GifFrames ==
    GifCall
        => LET gif == call.arg.content
               crc == crc32(gif)
           IN  /\ pc = "built"
               /\ \A k \in 1..Len(plan.windows) :
                     LET d == plan.windows[k].data
                     IN  /\ Len(d) >= 15
                         /\ IsBytes(SubSeq(d, 1, 15))
                         /\ d[1] + 256 * d[2] = Len(d)
                         /\ SubSeq(d, 3, 5)
                                = <<3, 0, IF k = 1 THEN 0 ELSE 2>>
                         /\ SubSeq(d, 6, 9) = LittleEndian4(Len(gif))
                         /\ SubSeq(d, 10, 13)
                                = <<crc[4], crc[3], crc[2], crc[1]>>
                         /\ SubSeq(d, 14, 15)
                                = <<2, IF k = 1 THEN 1 ELSE 101>>

\* The second of three windows carries option 02, tail 02 65 and the length
\* of the whole GIF, 24586 = 0x600A.
C16_Witness ==
    /\ pc = "built"
    /\ call.cmd = "send_image"
    /\ Len(plan.windows) = 3
    /\ SubSeq(plan.windows[2].data, 3, 5) = <<3, 0, 2>>
    /\ SubSeq(plan.windows[2].data, 6, 9) = <<10, 96, 0, 0>>
    /\ SubSeq(plan.windows[2].data, 14, 15) = <<2, 101>>
    /\ SubSeq(plan.windows[1].data, 14, 15) = <<2, 1>>

\* ----------------------------------------------------------------- C17
\* The number a sequence of bytes holds, low byte first.
RECURSIVE LittleEndianValue(_)
LittleEndianValue(b) ==
    IF b = <<>> THEN 0 ELSE Head(b) + 256 * LittleEndianValue(Tail(b))

\* byte_count fits in w bytes (every count of the model fits in 4 bytes).
FitsIn(byte_count, w) == w >= 4 \/ byte_count < 256^w

\* C17: get_frame_size(data, 2 * w) returns exactly w bytes that hold the
\* byte count of data low byte first whenever the count is below 256^w, and
\* raises for every count from 256^w on.
C17_LengthField ==
    (pc \in {"returned", "rejected"} /\ call.cmd = "get_frame_size")
        => IF FitsIn(call.arg.byte_count, call.arg.size \div 2)
           THEN /\ pc = "returned"
                /\ Len(plan.value) = call.arg.size
                /\ LittleEndianValue(fromhex(plan.value))
                       = call.arg.byte_count
           ELSE pc = "rejected"

\* ----------------------------------------------------------------- C18
\* Bit i of n, bit 0 being the lowest.
BitAt(n, i) == (n \div 2^i) % 2

ReverseCall == pc = "returned" /\ call.cmd = "reverse_bits_16"

\* C18: reverse_bits_16(n) is a 16-bit value whose bit i is bit 15 - i of
\* n; reversing it again gives n back, and 0xAAAA is mapped to 0x5555.
C18_BitReversal ==
    ReverseCall
        => /\ plan.value \in 0..65535
           /\ \A i \in 0..15 : BitAt(plan.value, i) = BitAt(call.arg, 15 - i)
           /\ reverse_bits_16(plan.value) = call.arg
           /\ (call.arg = 43690 => plan.value = 21845)

C18_Witness == ReverseCall /\ call.arg = 43690 /\ plan.value = 21845

\* ----------------------------------------------------------------- C19
\* _encode_text has returned the block of one glyph of width w and height 16.
GlyphCall(w) ==
    /\ pc = "returned"
    /\ call.cmd = "encode_text"
    /\ call.arg[1].img.width = w
    /\ call.arg[1].img.height = 16

\* The wire bitmap: the block without its six header bytes.
WireBitmap == SubSeq(plan.value, 7, Len(plan.value))

\* Every pixel of the glyph is on (off).
AllOn(img) ==
    \A y \in 0..(img.height - 1) : \A x \in 0..(img.width - 1) :
        img.px[y][x] > 0

AllOff(img) ==
    \A y \in 0..(img.height - 1) : \A x \in 0..(img.width - 1) :
        img.px[y][x] = 0

\* C19: the wire bitmap of a 9x16 glyph is 32 bytes long, all of them 0x00
\* when every pixel is off and all of them 0xFF when every pixel is on.
C19_WireBitmap ==
    GlyphCall(9)
        => /\ Len(WireBitmap) = 32
           /\ AllOff(call.arg[1].img)
                  => \A i \in 1..32 : WireBitmap[i] = 0
           /\ AllOn(call.arg[1].img)
                  => \A i \in 1..32 : WireBitmap[i] = 255

\* C19 (amended): the wire bitmap of a 9x16 glyph is 32 bytes long, all of
\* them 0x00 when every pixel is off; when every pixel is on each row is the
\* two bytes 0xFF 0x01, the seven padding bits staying 0.  All 32 bytes are
\* 0xFF for the 16x16 glyph with every pixel on.
C19_WireBitmapAmended ==
    /\ GlyphCall(9)
           => /\ Len(WireBitmap) = 32
              /\ AllOff(call.arg[1].img)
                     => \A i \in 1..32 : WireBitmap[i] = 0
              /\ AllOn(call.arg[1].img)
                     => \A i \in 1..32 :
                            WireBitmap[i] = IF i % 2 = 1 THEN 255 ELSE 1
    /\ (GlyphCall(16) /\ AllOn(call.arg[1].img))
           => /\ Len(WireBitmap) = 32
              /\ \A i \in 1..32 : WireBitmap[i] = 255

C19_Witness ==
    /\ GlyphCall(9)
    /\ AllOn(call.arg[1].img)
    /\ WireBitmap[1] = 255
    /\ WireBitmap[2] = 1

\* ----------------------------------------------------------------- C20
CharImgCall == pc = "returned" /\ call.cmd = "charimg_to_hex_string"

\* ceil(W / 8) * 8
PaddedWidth(img) == ((img.width + 7) \div 8) * 8

\* Bit (PaddedWidth - 1 - x) of row y of hex_string: the rows are
\* PaddedWidth / 4 digits each, highest digit first, so the bit is bit
\* 3 - x % 4 of the row's digit number x / 4.
RowBit(hex_string, img, x, y) ==
    BitAt(hex_string[y * (PaddedWidth(img) \div 4) + (x \div 4) + 1],
          3 - (x % 4))

\* C20: for a glyph image of width W in 1..32 and height H,
\* charimg_to_hex_string returns W and H rows of ceil(W / 8) bytes, top to
\* bottom, where bit (paddedWidth - 1 - x) of row y is 1 iff the pixel
\* (x, y) is on and the bits at x >= W are 0; the 16-wide row with the
\* pixels at even x on is AAAA.
C20_RowPacking ==
    (CharImgCall /\ call.arg.width \in 1..32)
        => LET img == call.arg
               hex_string == plan.value[1]
           IN  /\ plan.value[2] = img.width
               /\ PaddedWidth(img) \div 4 \in {2, 4, 6, 8}
               /\ Len(hex_string) = img.height * (PaddedWidth(img) \div 4)
               /\ \A y \in 0..(img.height - 1) :
                      \A x \in 0..(PaddedWidth(img) - 1) :
                          RowBit(hex_string, img, x, y)
                              = IF x < img.width /\ img.px[y][x] > 0
                                THEN 1 ELSE 0
               /\ img = GlyphImage(16, 1, "even", 0)
                      => hex_string = <<10, 10, 10, 10>>

C20_Witness ==
    /\ CharImgCall
    /\ call.arg = GlyphImage(16, 1, "even", 0)
    /\ plan.value = <<<<10, 10, 10, 10>>, 16>>

\* ----------------------------------------------------------------- C21
\* A failed write is the last operation of a send: it follows the write of
\* its chunk, and nothing is written or awaited after it.
C21_FailureEndsSend ==
    \A t \in OpPos("write_failed") :
       /\ t = Len(log)
       /\ pc = "failed"
       /\ err = "LinkWriteFailure"
       /\ t > 1 /\ log[t - 1].op = "write" /\ log[t - 1].win = log[t].win
       /\ Len(link) = Cardinality(WritePos)
       /\ \A i \in 1..Len(log) :
             log[i].op \in WaitStarts => log[i].win < log[t].win

\* C21: when a link write fails, send_plan fails with the link's error (unless
\* the caller cancelled it): the failing step writes nothing (no retry), no
\* further chunk of this or a later window is written and no wait is started
\* after it.
C21_WriteFailureFatal ==
    /\ []C21_FailureEndsSend
    /\ [][(pc = "writing" /\ pc' \notin {"writing", "cancelled"}
              /\ ~Performs("write_ok"))
            => /\ pc' = "failed"
               /\ err' = "LinkWriteFailure"
               /\ Performs("write_failed")
               /\ Len(log') = Len(log) + 1
               /\ link' = link]_vars
    /\ [][pc = "failed" => link' = link \/ pc' = "idle"]_vars

\* The second chunk of the first of two windows failed; the window was to
\* be acknowledged.
C21_Witness ==
    /\ pc = "failed"
    /\ err = "LinkWriteFailure"
    /\ Len(plan.windows) = 2
    /\ idx = 0
    /\ Awaited(0)
    /\ Len(link) = 2
    /\ Len(plan.windows[2].data) > 0

\* ----------------------------------------------------------------- C22
\* The coroutine has left the chunk loop of window k.
PastChunks(k) ==
    \/ pc \in {"done", "wait_final"}
    \/ \E i \in 1..Len(log) :
          \/ log[i].win > k
          \/ log[i].win = k /\ log[i].op \in {"wait_window", "final_timeout",
                                               "final_acked"}

\* The window wait is started for exactly the awaited windows, right after
\* the last write of the window has returned; a window timeout belongs to
\* an awaited window, and the ack-timeout error to a window timeout.
C22_WaitsForAwaited ==
    /\ \A s \in OpPos("wait_window") : Awaited(log[s].win)
    /\ \A t \in OpPos("window_timeout") : Awaited(log[t].win)
    /\ err = "cur12k_no_answer" => OpPos("window_timeout") # {}
    /\ \A i \in 1..Len(log) :
          LET k == log[i].win
          IN  (log[i].op \in {"write", "reset"} /\ PastChunks(k))
                 => (Awaited(k)
                        <=> \E s \in OpPos("wait_window") : log[s].win = k)
    /\ \A i \in 1..(Len(log) - 1) :
          (log[i + 1].win > log[i].win /\ ~Awaited(log[i].win))
             => /\ log[i].op \in {"write_ok", "reset"}
                /\ log[i + 1].op \in {"reset", "wait_final"}

\* The command functions that build their window with requires_ack=False.
Unacknowledged == {"set_pixel", "set_clock_mode", "get_device_info"}

\* A send of one of them never waits on the window signal and never fails
\* with the ack timeout.
C22_NoWindowWait ==
    (call.cmd \in Unacknowledged /\ pc \notin {"idle", "rejected"})
        => /\ ~Awaited(0)
           /\ OpPos("wait_window") = {}
           /\ pc # "wait_window"
           /\ err # "cur12k_no_answer"

\* C22: send_plan waits on the window signal for a window if and only if
\* ack_per_window and the window's requires_ack are both true; for any other
\* window the step in which the last write returns goes on to the next
\* window or to the final phase whatever the signals are, so that a plan of
\* set_pixel or set_clock_mode is sent without a window wait and cannot fail
\* with the ack timeout.
C22_WindowWaitIff ==
    /\ []C22_WaitsForAwaited
    /\ []C22_NoWindowWait
    /\ [][(Performs("write_ok") /\ pos' = Len(plan.windows[idx + 1].data)
              /\ ~Awaited(idx))
            => /\ idx' > idx \/ pc' \in {"done", "wait_final"}
               /\ pc' # "failed"]_vars

\* set_pixel has been sent and is done although no notification has set a
\* signal since the reset; the final wait timed out.
C22_Witness ==
    /\ call.cmd = "set_pixel"
    /\ pc = "done"
    /\ Len(link) = 1
    /\ ~window_event
    /\ ~all_event
    /\ OpPos("final_timeout") # {}

\* ----------------------------------------------------------------- C23
TextCall == pc = "built" /\ call.cmd = "send_text"

\* The frame send_text has built.
TextFrame == plan.windows[1].data

\* The two bytes at i and i + 1, low byte first.
Le2At(frame, i) == frame[i] + 256 * frame[i + 1]

\* The bytes of the frame after the save slot: the character count, the
\* properties and the glyph blocks.
AfterSaveSlot(frame) == SubSeq(frame, 16, Len(frame))

\* The byte a pair of hexadecimal digits of the colour stands for.
ColourByte(color, i) == 16 * color[2 * i - 1] + color[2 * i]

\* The bytes 00 01 01 animation speed rainbow R G B 00 00 00 00.
PropertiesOf(a) ==
    <<0, 1, 1, a.animation, a.speed, a.rainbow_mode, ColourByte(a.color, 1),
      ColourByte(a.color, 2), ColourByte(a.color, 3), 0, 0, 0, 0>>

\* The glyph blocks of the text, in the colour of the call.
GlyphBlocksOf(a) ==
    encode_text(a.text, a.text_size,
                <<ColourByte(a.color, 1), ColourByte(a.color, 2),
                  ColourByte(a.color, 3)>>)

\* The frame up to the character count: len1, 00 01 00, len2, 00 00, the
\* CRC-32 of the bytes after the save slot, the save slot, the count.
FrameHead(a, frame) ==
    LET gap == 6 + 2 * a.text_size
        crc == crc32(AfterSaveSlot(frame))
    IN  /\ Len(plan.windows) = 1
        /\ IsBytes(frame)
        /\ Len(frame) >= 16
        /\ Le2At(frame, 1) = 29 + Len(a.text) * gap
        /\ SubSeq(frame, 3, 5) = <<0, 1, 0>>
        /\ Le2At(frame, 6) = 14 + Len(a.text) * gap
        /\ SubSeq(frame, 8, 9) = <<0, 0>>
        /\ SubSeq(frame, 10, 13) = <<crc[4], crc[3], crc[2], crc[1]>>
        /\ SubSeq(frame, 14, 15) = <<0, a.save_slot>>
        /\ frame[16] = Len(a.text)

\* C23: the send_text frame is len1 (2 bytes, low first), 00 01 00, len2 (2
\* bytes, low first), 00 00, the CRC-32 (4 bytes, low first), the save slot
\* (2 bytes, high first), the character count (1 byte), 12 bytes of
\* properties 00 01 01 animation speed rainbow R G B 00 00 00 00, and then
\* the glyph blocks; the CRC-32 is that of the bytes after the save slot.
C23_TextFrame ==
    TextCall
        => /\ FrameHead(call.arg, TextFrame)
           /\ IsPrefix(SubSeq(TextFrame, 17, 28), PropertiesOf(call.arg))
           /\ SubSeq(TextFrame, 29, Len(TextFrame)) = GlyphBlocksOf(call.arg)

\* C23 (amended): the same layout with 13 bytes of properties, the glyph
\* blocks starting at byte 29 of the frame (counted from 0).
C23_TextFrameAmended ==
    TextCall
        => /\ FrameHead(call.arg, TextFrame)
           /\ Len(TextFrame) >= 29
           /\ SubSeq(TextFrame, 17, 29) = PropertiesOf(call.arg)
           /\ SubSeq(TextFrame, 30, Len(TextFrame)) = GlyphBlocksOf(call.arg)
           /\ Len(TextFrame) > 29 => TextFrame[30] = 128

\* A text of two glyphs at text size 16 in the colour 0123ab, animation 7,
\* speed 100, rainbow mode 9, save slot 10.
C23_Witness ==
    /\ TextCall
    /\ Len(call.arg.text) = 2
    /\ call.arg.text_size = 16
    /\ SubSeq(TextFrame, 14, 29) =
           <<0, 10, 2, 0, 1, 1, 7, 100, 9, 1, 35, 171, 0, 0, 0, 0>>
    /\ Len(TextFrame) = 29 + 2 * 38

\* ----------------------------------------------------------------- C24
\* The legacy sender has sent the image of the call, a GIF (a .gif file, or
\* hexadecimal data with the GIF signature) that send_animation has framed
\* as a GIF transport.
LegacySent ==
    /\ pc = "returned"
    /\ call.cmd = "send_image"
    /\ load_is_gif(call.arg)
    /\ \A k \in 1..Len(log) : log[k].op = "window"

\* The chunks send_plan writes for plan p (C1, C7).
PlanChunks(p) ==
    Concat([k \in 1..Len(p.windows) |->
               ExpectedChunks(p.windows[k].data, p.chunk_size)])

\* C24: for every GIF the legacy encoder frames, send_image builds a plan
\* whose windows are, one for one, the messages send_gif_windowed writes for
\* it, and the chunks send_plan writes for the plan are the chunks the
\* legacy sender writes.
C24_SameWindows ==
    LegacySent
        => /\ IsSendPlan(plan)
           /\ plan.id = "send_image"
           /\ Len(plan.windows) = Len(log)
           /\ \A k \in 1..Len(log) :
                 /\ plan.windows[k].data = log[k].chunk
                 /\ plan.windows[k].requires_ack
           /\ plan.ack_policy = AckPolicy(TRUE, TRUE)
           /\ PlanChunks(plan) = link

\* A GIF of three windows has been sent by the legacy sender.
C24_Witness ==
    /\ LegacySent
    /\ Len(log) = 3
    /\ Len(plan.windows) = 3
    /\ Len(link) > 100

\* ----------------------------------------------------------------- C25
\* The date of the call is a valid calendar date written DD/MM/YYYY.
DocumentedDate(date) ==
    /\ Len(date) = 3
    /\ date[3] \in 1000..9999
    /\ ~datetime_raises(date[3], date[2], date[1])

\* C25: set_clock_mode with a style in 0..8 and a valid date in the
\* documented format DD/MM/YYYY returns a plan of one window holding the 11
\* bytes 0b 00 06 01 style fmt24 showDate year month day dayOfWeek (the year
\* as its last two digits).
C25_DocumentedDate ==
    (pc \in {"built", "rejected"} /\ call.cmd = "set_clock_mode"
        /\ call.arg.style \in 0..8 /\ DocumentedDate(call.arg.date))
        => LET a == call.arg
           IN  /\ pc = "built"
               /\ IsSendPlan(plan)
               /\ Len(plan.windows) = 1
               /\ plan.windows[1].data =
                      <<11, 0, 6, 1, a.style, Flag(a.format_24),
                        Flag(a.show_date), a.date[3] % 100, a.date[2],
                        a.date[1],
                        weekday(a.date[3], a.date[2], a.date[1]) + 1>>

\* ----------------------------------------------------------------- C26
\* The glyph blocks of the frame: what follows the 13 property bytes.
BlocksRegion(frame) == SubSeq(frame, 30, Len(frame))

\* The region is n blocks of 6 + 2 * text_size bytes, each starting with 80.
HoldsBlocks(region, n, text_size) ==
    LET size == 6 + 2 * text_size
    IN  /\ Len(region) = n * size
        /\ \A k \in 0..(n - 1) :
              region[k * size + 1] = 128 /\ region[k * size + 6] = text_size

\* C26: in the frame of every text send_text accepts, len1 is the length of
\* the frame, len2 the length of the bytes the CRC-32 covers, and the
\* character count the number of glyph blocks, also when the rasterizer
\* fails for a character of the text.
C26_SelfConsistent ==
    TextCall
        => /\ Le2At(TextFrame, 1) = Len(TextFrame)
           /\ Le2At(TextFrame, 6) = Len(AfterSaveSlot(TextFrame))
           /\ HoldsBlocks(BlocksRegion(TextFrame), TextFrame[16],
                          call.arg.text_size)

\* ----------------------------------------------------------------- C27
WireCall == pc \in {"returned", "rejected"} /\ call.cmd = "glyph_wire"

\* C27: on a buffer of even length the three transforms of _encode_text
\* (2-byte groups in reverse order, all bytes in reverse order, the bits of
\* each 16-bit word in reverse order) return a buffer of the same length in
\* which byte i is byte i of the input with its 8 bits in reverse order; on
\* a buffer of odd length they raise.
C27_BytewiseReversal ==
    WireCall
        => IF Len(call.arg) % 2 = 0
           THEN /\ pc = "returned"
                /\ Len(plan.value) = Len(call.arg)
                /\ \A i \in 1..Len(call.arg) :
                      /\ plan.value[i] \in 0..255
                      /\ \A b \in 0..7 :
                            BitAt(plan.value[i], b) = BitAt(call.arg[i], 7 - b)
           ELSE pc = "rejected" /\ err = "ValueError"

\* 01 80 aa ff has become 80 01 55 ff.
C27_Witness ==
    /\ WireCall
    /\ call.arg = <<1, 128, 170, 255>>
    /\ plan.value = <<128, 1, 85, 255>>

\* ----------------------------------------------------------------- C28
\* The wait on window k has returned at position a of the log: a
\* notification setting the window signal was delivered during window k
\* after all its chunks were written.
AckedAfterLastChunk(a) ==
    \E n \in OpPos("notify") :
       /\ n < a
       /\ log[n].win = log[a].win
       /\ \A w \in WritePosOf(log[a].win) : w < n

\* C28: whenever notifications are delivered, the wait on an awaited window
\* returns, and the next window is written, only after a notification of
\* status 0, 1 or 3 delivered after the last chunk of the window was
\* written; one delivered between the window's reset() and its last chunk
\* does not end the wait.
C28_FreshAck ==
    \A a \in OpPos("window_acked") : AckedAfterLastChunk(a)

\* ------------------------------------------------------------------- C29
\* A send is in flight from its first write until send_plan returns or
\* raises.
InFlight(t) ==
    pc[t] \in Suspended \cup {"woken_window", "woken_final"}

\* The chunks of the two plans are interleaved: a chunk of one task lies
\* between two chunks of the other.
Interleaved ==
    \E i, j, k \in 1..Len(link) :
        /\ i < j /\ j < k
        /\ link[i].task = link[k].task
        /\ link[j].task # link[i].task

\* This step is a reset() of task u that clears a set signal the send of
\* the other task has not consumed: the window signal while that send is
\* suspended in a write or a wait, the final signal while that send, which
\* ends with the final wait, is in flight.
ForeignReset(u) ==
    /\ log'[Other(u)] = log[Other(u)]
    /\ log'[u] # log[u]
    /\ \/ /\ pc[Other(u)] \in Suspended
          /\ window_event /\ ~window_event'
       \/ /\ InFlight(Other(u))
          /\ plan[Other(u)].ack_policy.ack_final
          /\ all_event /\ ~all_event'

\* C29: two command methods invoked concurrently on one AsyncClient keep
\* single-writer discipline: the chunks of the two SendPlans are never
\* interleaved on the link, and the reset() of one send never clears a
\* signal the other send is waiting on or has not yet consumed.
C29_SingleWriter ==
    [][~Interleaved' /\ \A u \in Tasks : ~ForeignReset(u)]_vars

\* ------------------------------------------------------------------- C30
\* The position in the log of the last reset().
LastReset == CHOOSE r \in OpPos("reset") : \A q \in OpPos("reset") : q <= r

\* The final wait has returned at position f of the log on a status-3
\* notification delivered after the reset() of the last window of the plan.
FinalAfterLastReset(f) ==
    /\ OpPos("reset") # {}
    /\ log[LastReset].win = Len(plan.windows) - 1
    /\ \E n \in OpPos("notify_final") : LastReset < n /\ n < f

\* The last operation of the coroutine is the write of the first chunk of
\* a window: reset(), then the write.
FirstChunkWritten ==
    /\ Len(log) >= 2
    /\ log[Len(log)].op = "write"
    /\ log[Len(log) - 1].op = "reset"

\* C30: in a send of a plan with windows, the final signal set during an
\* earlier window or left set by a previous command is cleared by the
\* reset() of a later window: the final wait returns before its timeout only
\* on a status-3 notification delivered after the reset() of the last
\* window, and both signals are unset when the first chunk of each window is
\* written.
C30_FinalSignal ==
    /\ [](Len(plan.windows) >= 1 =>
             \A f \in OpPos("final_acked") : FinalAfterLastReset(f))
    /\ [][log' # log /\ FirstChunkWritten' =>
             ~window_event' /\ ~all_event']_vars

\* A plan of two windows whose final wait has returned, with the final
\* signal set once during the first window and once more after the reset()
\* of the second.
C30_Witness ==
    /\ Len(plan.windows) = 2
    /\ OpPos("final_acked") # {}
    /\ \E n \in OpPos("notify_final") : log[n].win = 0
    /\ \E n \in OpPos("notify_final") : log[n].win = 1 /\ LastReset < n

TypeOK ==
    /\ connected \in BOOLEAN
    /\ window_event \in BOOLEAN
    /\ all_event \in BOOLEAN
    /\ pc \in {"idle", "handled", "built", "returned"} \cup Suspended \cup Terminal
    /\ idx \in 0..MaxWindows
    /\ pos \in 0..MaxLen + 5
====
